---- MODULE Spec2Model ----
(***************************************************************************)
(* The chat relay of backend/app.py (POST /chat): credential resolution,   *)
(* thread resolution, persistence of the user message, the upstream        *)
(* completion call with its single non-streaming fallback, the resumable   *)
(* stream cache STREAMING_CACHE and the frames of the response.            *)
(*                                                                         *)
(* Encoding.  A text (Python str) is a sequence of one-character strings,  *)
(* so "" is << >> and + is \o.  None is the string "None" where the value  *)
(* is a string or an id, and 0 where it is a count.  Row ids and           *)
(* timestamps are positive integers.  One step of the model is the code    *)
(* that runs between two suspension points (await / yield) of a request.   *)
(***************************************************************************)
EXTENDS Integers, Sequences, FiniteSets, TLC

VARIABLES
    api_keys,          \* rows of table api_keys
    threads,           \* rows of table threads
    messages,          \* rows of table messages
    shared_links,      \* rows of table shared_links
    STREAMING_CACHE,   \* app.py:911, stream_id -> list of increments
    clock,             \* datetime.utcnow()
    uuids,             \* how many requests drew their uuid4 tokens
    branches,          \* how many branches drew their uuid4
    req,               \* the requests being served and their local variables
    result             \* the last answer of the thread endpoints

vars == <<api_keys, threads, messages, shared_links, STREAMING_CACHE, clock, uuids, branches,
          req, result>>

----------------------------------------------------------------------------
(* Bounds of the model *)

MaxRequests == 2       \* POST /chat requests accepted in one behaviour
MaxChunks == 2         \* chunks an upstream stream yields before it ends
MaxKeys == 3           \* stored API keys, where the stored keys are arbitrary
MaxBranches == 2       \* branches created in one behaviour
MaxLinks == 1          \* share links stored at one time

\* the requests in flight, one task per POST /chat
Requests == 1..MaxRequests

\* where the clients send one request after the other, one task runs at a time
Serial == {1}

----------------------------------------------------------------------------
(* Values *)

None == "None"

Empty == << >>

\* str.strip() of the text is empty (only the blank character is modelled
\* as whitespace)
IsBlank(t) == \A i \in 1..Len(t) : t[i] = " "

\* s.startswith('<')
StartsWithLt(s) == Len(s) > 0 /\ s[1] = "<"

\* chat_request.model_name.split(":")[0]
RECURSIVE SplitColon(_)
SplitColon(s) ==
    IF s = Empty \/ Head(s) = ":" THEN Empty
    ELSE <<Head(s)>> \o SplitColon(Tail(s))

----------------------------------------------------------------------------
(* Upstream chunks and extract_content_from_chunk (app.py:1053-1146).       *)
(* A chunk is a record; every chunk has every field, so that chunks        *)
(* compare.  kind: "falsy" (None, "", {}, 0), "str", "dict", "obj".        *)
(*   s        the text of a str chunk                                      *)
(*   d        the items of a dict chunk, or of an obj chunk that supports  *)
(*            `key in chunk` / chunk[key]: key -> dict value               *)
(*   choices  chunk.choices, << >> when absent or empty                    *)
(*   container  whether `key in chunk` is supported (else TypeError)       *)
(*   content  chunk.content, Empty when absent or falsy                    *)
(*   text_m, read_m  results of chunk.text(), chunk.read(), Empty when     *)
(*            the method is absent, raises or returns a falsy value        *)
(*   complete chunk.complete_response                                     *)
(*   chunks   chunk.chunks                                                 *)
(*   repr     str(chunk)                                                   *)
(* A dict value is [vk, s, has_content, truthy]: vk "str" (s the string),  *)
(* "dict" (has_content: 'content' in it, s its content or Empty) or        *)
(* "other".                                                                *)

DictKeys == <<"content", "text", "message", "delta">>

StrVal(t) == [vk |-> "str", s |-> t, has_content |-> FALSE, truthy |-> t # Empty]
DictVal(has, t) == [vk |-> "dict", s |-> t, has_content |-> has, truthy |-> TRUE]
OtherVal(b) == [vk |-> "other", s |-> Empty, has_content |-> FALSE, truthy |-> b]

NoItems == [k \in {} |-> StrVal(Empty)]

NoComplete == [ck |-> "none", s |-> Empty, d |-> NoItems]

NoPart == [truthy |-> FALSE, content |-> Empty]
Part(t) == [truthy |-> TRUE, content |-> t]

\* one element of chunk.choices: .delta, .message, .text
Choice(delta, message, text) == [delta |-> delta, message |-> message, text |-> text]

BaseChunk ==
    [kind |-> "obj", s |-> Empty, d |-> NoItems, choices |-> << >>,
     container |-> FALSE, content |-> Empty, text_m |-> Empty, read_m |-> Empty,
     complete |-> NoComplete, chunks |-> << >>, repr |-> <<"<", "o", ">">>]

FalsyChunk == [BaseChunk EXCEPT !.kind = "falsy", !.repr = Empty]
StrChunk(t) == [BaseChunk EXCEPT !.kind = "str", !.s = t, !.repr = t]
DictChunk(items) == [BaseChunk EXCEPT !.kind = "dict", !.d = items, !.container = TRUE,
                                      !.repr = <<"{", "}">>]
\* token-streaming shape: choices[0].delta.content
DeltaChunk(t) == [BaseChunk EXCEPT !.choices = <<Choice(Part(t), NoPart, Empty)>>,
                                   !.container = TRUE]
\* aggregate shape: choices[0].message.content
MessageChunk(t) == [BaseChunk EXCEPT !.choices = <<Choice(NoPart, Part(t), Empty)>>,
                                     !.container = TRUE]
\* an object of no known shape whose str() is the default <...> placeholder
OpaqueChunk == BaseChunk

Ok(t) == [exc |-> FALSE, s |-> t]
Raised == [exc |-> TRUE, s |-> Empty]

\* app.py:1066-1071 (and 1086-1091, 1122-1127): the loop over the keys of a
\* mapping; hit is FALSE when the loop ends without returning
RECURSIVE KeyLoop(_, _)
KeyLoop(items, i) ==
    IF i > Len(DictKeys) THEN [hit |-> FALSE, s |-> Empty]
    ELSE LET key == DictKeys[i] IN
         IF key \in DOMAIN items /\ items[key].truthy
         THEN IF items[key].vk = "str" THEN [hit |-> TRUE, s |-> items[key].s]
              ELSE IF items[key].vk = "dict" /\ items[key].has_content
                   THEN [hit |-> TRUE, s |-> items[key].s]
                   ELSE KeyLoop(items, i + 1)
         ELSE KeyLoop(items, i + 1)

\* app.py:1074-1083: the if / elif chain on choices[0]
ChoiceText(choice) ==
    IF choice.delta.truthy THEN choice.delta.content
    ELSE IF choice.message.truthy THEN choice.message.content
    ELSE choice.text

\* app.py:1118-1129
CompleteText(c) ==
    IF c.ck = "dict" THEN KeyLoop(c.d, 1)
    ELSE IF c.ck = "str" /\ c.s # Empty THEN [hit |-> TRUE, s |-> c.s]
    ELSE [hit |-> FALSE, s |-> Empty]

RECURSIVE ExtractContent(_)
RECURSIVE FirstOfChunks(_, _)

\* app.py:1139-1146: str(chunk) unless it is the default object repr
ReprFallback(chunk) ==
    IF chunk.repr # Empty /\ ~StartsWithLt(chunk.repr) THEN Ok(chunk.repr) ELSE Ok(Empty)

\* app.py:1093-1137: .content, .text()/.read(), .complete_response, .chunks
AttrText(chunk) ==
    IF chunk.content # Empty THEN Ok(chunk.content)
    ELSE IF chunk.text_m # Empty THEN Ok(chunk.text_m)
    ELSE IF chunk.read_m # Empty THEN Ok(chunk.read_m)
    ELSE IF CompleteText(chunk.complete).hit THEN Ok(CompleteText(chunk.complete).s)
    ELSE LET c == FirstOfChunks(chunk.chunks, 1) IN
         IF c.exc \/ c.s # Empty THEN c ELSE ReprFallback(chunk)

\* app.py:1131-1137
FirstOfChunks(cs, i) ==
    IF i > Len(cs) THEN Ok(Empty)
    ELSE LET c == ExtractContent(cs[i]) IN
         IF c.exc \/ c.s # Empty THEN c ELSE FirstOfChunks(cs, i + 1)

\* extract_content_from_chunk, app.py:1053-1146: the text of a chunk, Empty
\* when there is none; exc when the function raises (TypeError at 1087)
ExtractContent(chunk) ==
    IF chunk.kind = "falsy" THEN Ok(Empty)
    ELSE IF chunk.kind = "str" THEN Ok(chunk.s)
    ELSE IF chunk.kind = "dict" /\ KeyLoop(chunk.d, 1).hit THEN Ok(KeyLoop(chunk.d, 1).s)
    ELSE IF chunk.kind = "obj" /\ chunk.choices # << >>
         THEN IF ChoiceText(chunk.choices[1]) # Empty
              THEN Ok(ChoiceText(chunk.choices[1]))
              ELSE IF ~chunk.container THEN Raised
              ELSE IF KeyLoop(chunk.d, 1).hit THEN Ok(KeyLoop(chunk.d, 1).s)
              ELSE AttrText(chunk)
    ELSE AttrText(chunk)

----------------------------------------------------------------------------
(* The database: rows of api_keys, threads and messages (models.py)        *)

\* encrypt_api_key / decrypt_api_key, app.py:188-192
EncryptApiKey(k) == <<"fernet", k>>
DecryptApiKey(e) == e[2]

\* models.py:22-31, GUID.process_bind_param: an id that is bound to a
\* query is parsed by uuid.UUID, which raises ValueError for a string that
\* is no UUID; the statement fails and the request is answered 500.  The
\* ids of rows are positive, 0 is an id left out, a negative id is a string
\* that is no UUID.
IsUuid(value) == value > 0

\* models.py:54-66
APIKey(id, user, provider, model, secret, active) ==
    [id |-> id, user_id |-> user, provider |-> provider, model_name |-> model,
     encrypted_key |-> EncryptApiKey(secret), is_active |-> active]

\* models.py:68-81
Thread(id, user, title, provider, model, now) ==
    [id |-> id, user_id |-> user, title |-> title, provider |-> provider,
     model_name |-> model, created_at |-> now, updated_at |-> now]

\* models.py:83-95; parent_message_id 0 and branch_id None are NULL
Message(id, thread, role, content, now, parent, branch) ==
    [id |-> id, thread_id |-> thread, role |-> role, content |-> content,
     created_at |-> now, parent_message_id |-> parent, branch_id |-> branch]

\* models.py:83-95: the table has no error_info column, a message carries none
ErrorInfo(m) == None

\* a fresh uuid4 primary key: an id no row of the table has
NewId(rows) == IF rows = {} THEN 1
               ELSE 1 + CHOOSE n \in {x.id : x \in rows} : \A x \in rows : x.id <= n

\* app.py:972: message[:50] + "..." if len(message) > 50 else message
TitleLen == 50
Title(message) ==
    IF Len(message) > TitleLen
    THEN SubSeq(message, 1, TitleLen) \o <<".", ".", ".">>
    ELSE message

\* a faulty ResolveKey, for C15: a provider-wide key is taken before an
\* exact one
ResolveKeyWideFirst(keys, user, provider, model) ==
    LET mine == {k \in keys : k.user_id = user /\ k.provider = provider /\ k.is_active}
        exact == {k \in mine : k.model_name = model}
        wide == {k \in mine : k.model_name \in {<<"*">>, Empty}}
    IN IF wide # {} THEN wide ELSE IF exact # {} THEN exact ELSE mine

\* a faulty ResolveKey, for C16: the fallback query is not scoped to the user
ResolveKeyAnyUser(keys, user, provider, model) ==
    LET mine == {k \in keys : k.user_id = user /\ k.provider = provider /\ k.is_active}
        exact == {k \in mine : k.model_name = model}
        wide == {k \in mine : k.model_name \in {<<"*">>, Empty}}
    IN IF exact # {} THEN exact ELSE IF wide # {} THEN wide
       ELSE {k \in keys : k.provider = provider /\ k.is_active}

\* a faulty ResolveKey, for C4: the is_active filter is left out
ResolveKeyAnyState(keys, user, provider, model) ==
    LET mine == {k \in keys : k.user_id = user /\ k.provider = provider}
        exact == {k \in mine : k.model_name = model}
        wide == {k \in mine : k.model_name \in {<<"*">>, Empty}}
    IN IF exact # {} THEN exact ELSE IF wide # {} THEN wide ELSE mine

\* app.py:929-952: the rows the three queries of the credential lookup may
\* return (.first() without ORDER BY returns any matching row)
ResolveKey(keys, user, provider, model) ==
    LET mine == {k \in keys : k.user_id = user /\ k.provider = provider /\ k.is_active}
        exact == {k \in mine : k.model_name = model}
        wide == {k \in mine : k.model_name \in {<<"*">>, Empty}}
    IN IF exact # {} THEN exact ELSE IF wide # {} THEN wide ELSE mine

\* a faulty OrderByCreated, for C18: newest first
RECURSIVE OrderByCreatedDesc(_)
OrderByCreatedDesc(rows) ==
    IF rows = {} THEN << >>
    ELSE LET last == CHOOSE m \in rows : \A o \in rows :
                         \/ o.created_at < m.created_at
                         \/ (m.created_at = o.created_at /\ o.id <= m.id)
         IN <<last>> \o OrderByCreatedDesc(rows \ {last})

\* ORDER BY created_at of a set of rows (ties, which one branch of one thread
\* never has, by id)
RECURSIVE OrderByCreated(_)
OrderByCreated(rows) ==
    IF rows = {} THEN << >>
    ELSE LET first == CHOOSE m \in rows : \A o \in rows :
                          \/ m.created_at < o.created_at
                          \/ (m.created_at = o.created_at /\ m.id <= o.id)
         IN <<first>> \o OrderByCreated(rows \ {first})

\* a faulty History, for C17: the branch filter is left out
HistoryAnyBranch(msgs, thread, branch) ==
    OrderByCreated({m \in msgs : m.thread_id = thread})

\* app.py:1028-1034 (and 674-680): the messages of a thread and branch,
\* oldest first; branch None (or a falsy branch_id) is the main line
History(msgs, thread, branch) ==
    OrderByCreated({m \in msgs : m.thread_id = thread /\ m.branch_id = branch})

\* app.py:682-698, build_message_response (and the tuples of 1015-1034):
\* what is read of a row
MessageResponse(m) ==
    [id |-> m.id, role |-> m.role, content |-> m.content, created_at |-> m.created_at,
     parent_message_id |-> m.parent_message_id, branch_id |-> m.branch_id]

RECURSIVE MessageResponses(_)
MessageResponses(ms) ==
    IF ms = << >> THEN << >>
    ELSE <<MessageResponse(Head(ms))>> \o MessageResponses(Tail(ms))

\* app.py:1035-1038
RECURSIVE RoleContent(_)
RoleContent(ms) ==
    IF ms = << >> THEN << >>
    ELSE <<[role |-> Head(ms).role, content |-> Head(ms).content]>> \o RoleContent(Tail(ms))

\* a faulty LastInBranch, for C39: the earliest message of the branch
FirstInBranch(msgs, thread, branch) ==
    LET h == History(msgs, thread, branch) IN
    IF branch = None \/ h = << >> THEN 0 ELSE h[1].id

\* app.py:1000-1007: the newest message already in the requested branch,
\* 0 when the request names no branch or the branch is empty
LastInBranch(msgs, thread, branch) ==
    LET h == History(msgs, thread, branch) IN
    IF branch = None \/ h = << >> THEN 0 ELSE h[Len(h)].id

\* a faulty UserMessage, for C33: the parent link names a row that is not
\* in the table
UserMessageDanglingParent(msgs, thread, cr, now) ==
    Message(NewId(msgs), thread, "user", cr.message, now, NewId(msgs) + 1, cr.branch_id)

\* app.py:994-1013: the user message of a request
UserMessage(msgs, thread, cr, now) ==
    Message(NewId(msgs), thread, "user", cr.message, now,
            LastInBranch(msgs, thread, cr.branch_id), cr.branch_id)

\* a faulty AssistantMessage, for C3: the accumulated text is not stored
AssistantMessageNoText(msgs, q, now) ==
    Message(NewId(msgs), q.thread, "assistant", Empty, now,
            q.user_message, q.chat_request.branch_id)

\* a faulty AssistantMessage, for C38: the parent is the latest user
\* message of the thread, not the one of the request
AssistantMessageLatestUser(msgs, q, now) ==
    LET users == {m \in msgs : m.thread_id = q.thread /\ m.role = "user"}
        latest == CHOOSE m \in users : \A n \in users : n.created_at <= m.created_at
    IN Message(NewId(msgs), q.thread, "assistant", q.response_content, now,
               latest.id, latest.branch_id)

\* app.py:1307-1318: the assistant message of a request
AssistantMessage(msgs, q, now) ==
    Message(NewId(msgs), q.thread, "assistant", q.response_content, now,
            q.user_message, q.chat_request.branch_id)

\* a faulty Insert, for C1: the row is not stored
InsertLost(rows, row) == rows

\* db.add(row); db.commit()
Insert(rows, row) == rows \cup {row}

----------------------------------------------------------------------------
(* Requests and their local variables                                      *)

\* ChatRequest, app.py:913-921; thread_id 0, branch_id None and stream_id
\* None are absent; resume_from_chunk 0 stands for both None and 0, which
\* `chat_request.resume_from_chunk or 0` (1047) does not tell apart
ChatRequest(message, thread_id, provider, model, stream, branch, resume, sid) ==
    [message |-> message, thread_id |-> thread_id, provider |-> provider,
     model_name |-> model, stream |-> stream, branch_id |-> branch,
     resume_from_chunk |-> resume, stream_id |-> sid]

NoRequest == ChatRequest(Empty, 0, None, Empty, TRUE, None, 0, None)

\* str(uuid.uuid4()) at 1046 and at 1349, for the n-th request that draws
\* them: tokens no client supplies and no other request draws
Uuid(n) == "uuid-" \o ToString(n)
Uuid2(n) == "uuid-" \o ToString(n) \o "-json"

\* max_retries, app.py:1044
MaxRetries == 1

\* max_chunks of process_sync_generator_safe, app.py:1151; the loops that
\* consume the stream (app.py:1213-1240) do not call that function
max_chunks == 10000

NoError == [msg |-> "", attempts |-> 0, detail |-> Empty]

\* the frames of the response, app.py:1173/1293, 1327, 1284, 1297
ContentFrame(c, i, sid) ==
    [type |-> "content", content |-> c, chunk_index |-> i, stream_id |-> sid,
     thread_id |-> 0, total_chunks |-> 0, error |-> NoError]
DoneFrame(thread, n, sid) ==
    [type |-> "done", content |-> Empty, chunk_index |-> 0, stream_id |-> sid,
     thread_id |-> thread, total_chunks |-> n, error |-> NoError]
ErrorFrame(e, sid) ==
    [type |-> "error", content |-> Empty, chunk_index |-> 0, stream_id |-> sid,
     thread_id |-> 0, total_chunks |-> 0, error |-> e]

\* str(e) of the exceptions the relay catches
ErrUpstream == <<"E">>
ErrKey == <<"K">>
ErrType == <<"T">>

NoBody == [content |-> Empty, thread_id |-> 0, done |-> FALSE, total_chunks |-> 0,
           stream_id |-> None]

\* a faulty CompletionKwargs, for C32: only the latest message is sent
CompletionKwargsLatestOnly(cr, history, key, stream) ==
    [model |-> SplitColon(cr.model_name),
     messages |-> IF history = << >> THEN << >> ELSE <<history[Len(history)]>>,
     api_key |-> key, stream |-> stream,
     max_tokens |-> IF cr.provider \in {"cohere", "Cohere"} THEN 4000 ELSE 0]

\* completion_kwargs, app.py:1192-1203 (max_tokens 0: not passed)
CompletionKwargs(cr, history, key, stream) ==
    [model |-> SplitColon(cr.model_name), messages |-> history, api_key |-> key,
     stream |-> stream,
     max_tokens |-> IF cr.provider \in {"cohere", "Cohere"} THEN 4000 ELSE 0]

NoKwargs == CompletionKwargs(NoRequest, << >>, Empty, FALSE)

IdleReq ==
    [pc |-> "idle", current_user |-> None, chat_request |-> NoRequest, status |-> 0,
     api_key |-> Empty, api_key_record |-> 0, thread |-> 0, user_message |-> 0, assistant_message |-> 0,
     messages |-> << >>, conversation_history |-> << >>, stream_id |-> None, start_chunk |-> 0,
     cached_chunks |-> << >>, content_chunks |-> << >>, response_content |-> Empty,
     retry_count |-> 0, error_msg |-> Empty, response |-> << >>,
     uuid |-> None, uuid2 |-> None,
     completion_kwargs |-> NoKwargs, i |-> 0, consumed |-> 0,
     frames |-> << >>, body |-> NoBody,
     \* history of the request, not variables of the code:
     calls |-> << >>,         \* the kwargs of every completion call made
     raised |-> << >>,        \* per call, whether it raised
     seen |-> << >>,          \* STREAMING_CACHE[stream_id] when the generator started
     increments |-> << >>,    \* the non-empty texts extracted from what upstream sent
     attempt1 |-> "none",     \* what the relay held after the first attempt
     resumed |-> << >>,       \* <<c>>: the request before it named the same stream,
                              \* its client disconnected, and the cache then held c
     commit_failed |-> FALSE] \* the commit of the assistant message raised

\* the ways a request ends
Ended == {"http400", "http404", "http500", "replayed", "finished", "failed", "crashed", "cancelled"}

\* a faulty Drop, for C5: the whole list instead of lst[k:]
DropNone(lst, k) == lst

\* lst[k:]
Drop(lst, k) == SubSeq(lst, k + 1, Len(lst))

RECURSIVE Concat(_)
Concat(texts) == IF texts = << >> THEN Empty ELSE Head(texts) \o Concat(Tail(texts))

----------------------------------------------------------------------------
(* generate_response, app.py:1042-1330.  The operators below work on        *)
(* st = [q, cache, exc]: the locals of one request, STREAMING_CACHE, and    *)
(* whether the statement just executed raised.                             *)

\* app.py:1352-1364: the text chat() collects from the frames
RECURSIVE ContentOf(_)
ContentOf(frames) ==
    IF frames = << >> THEN Empty
    ELSE (IF Head(frames).type = "content" THEN Head(frames).content ELSE Empty)
         \o ContentOf(Tail(frames))

HasError(frames) == \E k \in 1..Len(frames) : frames[k].type = "error"

\* app.py:1344-1378: with stream=false chat() itself consumes the generator
\* and answers one JSON object, or 500.  In the elif chain of 1355-1364 a
\* done frame is taken by the 'thread_id' arm, so total_chunks stays 0 and
\* stream_id stays the one chosen at 1349.
Aggregate(q, crashed) ==
    IF q.chat_request.stream THEN q
    ELSE IF crashed \/ HasError(q.frames) THEN [q EXCEPT !.status = 500]
    ELSE [q EXCEPT !.status = 200,
                   !.body = [content |-> ContentOf(q.frames),
                             thread_id |-> q.thread,
                             done |-> TRUE,
                             total_chunks |-> 0,
                             stream_id |-> IF q.chat_request.stream_id # None
                                           THEN q.chat_request.stream_id ELSE q.uuid2]]

\* app.py:1046-1051 and 1169-1171: stream id, start chunk, the cache entry
\* and the slice of it a resuming request replays
GenStartOp(q, cache) ==
    LET sid == IF q.chat_request.stream_id # None THEN q.chat_request.stream_id ELSE q.uuid
        start == q.chat_request.resume_from_chunk
        cache1 == IF sid \in DOMAIN cache THEN cache ELSE cache @@ (sid :> << >>)
        cached == IF start > 0 THEN Drop(cache1[sid], start) ELSE << >>
    IN [q |-> [q EXCEPT !.stream_id = sid, !.start_chunk = start,
                        !.cached_chunks = cached, !.seen = cache1[sid],
                        !.pc = IF cached # << >> THEN "replay" ELSE "call"],
        cache |-> cache1, exc |-> FALSE]

\* content_chunks.append(content); STREAMING_CACHE[stream_id].append(content)
\* (1215-1217, 1238-1240, 1244-1246); KeyError when the entry is gone
Collect(st, content) ==
    IF content = Empty THEN st
    ELSE IF st.q.stream_id \in DOMAIN st.cache
         THEN [st EXCEPT !.q.content_chunks = Append(@, content),
                         !.cache[st.q.stream_id] = Append(@, content)]
         ELSE [st EXCEPT !.q.content_chunks = Append(@, content), !.exc = TRUE]

\* a faulty Replace, for C26: the content of a single response is added to
\* the chunks collected so far
ReplaceByAppend(st, content) ==
    IF content = Empty THEN st
    ELSE IF st.q.stream_id \in DOMAIN st.cache
         THEN [st EXCEPT !.q.content_chunks = Append(@, content),
                         !.cache[st.q.stream_id] = Append(@, content)]
         ELSE [st EXCEPT !.q.content_chunks = Append(@, content), !.exc = TRUE]

\* content_chunks = [content]; STREAMING_CACHE[stream_id].append(content)
\* (1250-1252, 1259-1261, 1271-1273)
Replace(st, content) ==
    IF content = Empty THEN st
    ELSE IF st.q.stream_id \in DOMAIN st.cache
         THEN [st EXCEPT !.q.content_chunks = <<content>>,
                         !.cache[st.q.stream_id] = Append(@, content)]
         ELSE [st EXCEPT !.q.content_chunks = <<content>>, !.exc = TRUE]

\* the text x extracted from a chunk or response of upstream is noted
Extracted(st, x) ==
    IF x.exc \/ x.s = Empty THEN st ELSE [st EXCEPT !.q.increments = Append(@, x.s)]

\* except Exception as e: error_msg = str(e) (1253-1255)
Caught(st, e) == [st EXCEPT !.exc = FALSE, !.q.error_msg = e]

\* an exception leaves the generator: the streamed response breaks off,
\* chat() answers 500 (1365-1367)
Crash(st) == [st EXCEPT !.exc = FALSE, !.q = Aggregate([st.q EXCEPT !.pc = "crashed"], TRUE)]

\* a faulty AfterAttempt, for C7: the fallback is called although the first
\* attempt left text
AfterAttemptAlways(st) ==
    IF st.q.response = << >> THEN Crash(st)
    ELSE [st EXCEPT !.q.pc = "fallback",
                    !.q.attempt1 = IF st.q.content_chunks # << >> THEN "text" ELSE "empty"]

\* app.py:1257-1266: after the try statement the response is extracted
\* again and replaces what was collected; then break, or the fallback
AfterAttempt(st) ==
    IF st.q.response = << >> THEN Crash(st)
    ELSE LET x == ExtractContent(st.q.response[1].obj) IN
         IF x.exc THEN Crash(st)
         ELSE LET st1 == Replace(st, x.s) IN
              IF st1.exc THEN Crash(st1)
              ELSE IF st1.q.content_chunks # << >>
                   THEN [st1 EXCEPT !.q.pc = "emit", !.q.i = 0, !.q.attempt1 = "text"]
                   ELSE [st1 EXCEPT !.q.pc = "fallback", !.q.attempt1 = "empty"]

\* the response taken as one chunk: 1242-1246 and 1229-1233 (streaming
\* requested, appended) and 1248-1252 (not streaming, replaces)
SingleChunk(st, streaming) ==
    LET x == ExtractContent(st.q.response[1].obj) IN
    IF x.exc THEN Caught(st, ErrType)
    ELSE LET st0 == Extracted(st, x)
             st1 == IF streaming THEN Collect(st0, x.s) ELSE Replace(st0, x.s) IN
         IF st1.exc THEN Caught(st1, ErrKey) ELSE st1

\* the iteration over the response raised e: an async iterable is then
\* taken as one chunk (1218-1233), for a sync iterable the exception
\* reaches the outer except (1253)
IterFailed(st, e) ==
    IF st.q.response[1].shape = "aiter"
    THEN AfterAttempt(SingleChunk([st EXCEPT !.exc = FALSE], TRUE))
    ELSE AfterAttempt(Caught(st, e))

\* app.py:1276-1288: the fallback gave nothing; retry_count += 1, and with
\* the retries used up the error frame is yielded
AfterFallback(st) ==
    LET n == st.q.retry_count + 1 IN
    IF n < MaxRetries
    THEN [st EXCEPT !.exc = FALSE, !.q.retry_count = n, !.q.pc = "call"]
    ELSE [st EXCEPT !.exc = FALSE, !.q.retry_count = n, !.q.pc = "error_sent",
                    !.q.frames = Append(@, ErrorFrame(
                        [msg |-> "Request failed after attempts", attempts |-> MaxRetries,
                         detail |-> st.q.error_msg], st.q.stream_id))]

\* a faulty Discard, for C30: the whole cache is cleared
DiscardAll(cache, sid) == [k \in {} |-> << >>]

\* `if stream_id in STREAMING_CACHE: del STREAMING_CACHE[stream_id]`
Discard(cache, sid) == [k \in DOMAIN cache \ {sid} |-> cache[k]]

St(r) == [q |-> req[r], cache |-> STREAMING_CACHE, exc |-> FALSE]

Commit(r, st) ==
    /\ req' = [req EXCEPT ![r] = st.q]
    /\ STREAMING_CACHE' = st.cache

----------------------------------------------------------------------------
(* The steps of a request                                                  *)

\* what a request cr that follows the request p finds of p's stream
Resumed(p, cr, cache) ==
    IF /\ p.pc = "cancelled" /\ p.stream_id # None
       /\ cr.stream_id = p.stream_id /\ p.stream_id \in DOMAIN cache
    THEN <<cache[p.stream_id]>> ELSE << >>

\* POST /chat, app.py:923-1038 and 1332-1352: credential, thread, user
\* message, history.  With stream=true the generator starts later, when the
\* response is sent; with stream=false chat() starts it at once.
Chat(r, u, cr) ==
    /\ req[r].pc \in {"idle"} \cup Ended
    /\ uuids < MaxRequests
    /\ LET keys == ResolveKey(api_keys, u, cr.provider, cr.model_name)
           q0 == [IdleReq EXCEPT !.current_user = u, !.chat_request = cr,
                                 !.resumed = Resumed(req[r], cr, STREAMING_CACHE)]
           owned == {t \in threads : t.id = cr.thread_id /\ t.user_id = u}
           now == clock + 1
       IN IF keys = {}
          THEN /\ req' = [req EXCEPT ![r] = [q0 EXCEPT !.pc = "http400", !.status = 400]]
               /\ UNCHANGED <<result, api_keys, branches, shared_links, threads, messages, STREAMING_CACHE, clock, uuids>>
          ELSE IF cr.thread_id # 0 /\ ~IsUuid(cr.thread_id)
          THEN /\ req' = [req EXCEPT ![r] = [q0 EXCEPT !.pc = "http500", !.status = 500]]
               /\ UNCHANGED <<result, api_keys, branches, shared_links, threads, messages, STREAMING_CACHE, clock, uuids>>
          ELSE IF cr.thread_id # 0 /\ owned = {}
          THEN /\ req' = [req EXCEPT ![r] = [q0 EXCEPT !.pc = "http404", !.status = 404]]
               /\ UNCHANGED <<result, api_keys, branches, shared_links, threads, messages, STREAMING_CACHE, clock, uuids>>
          ELSE \E key \in keys :
               LET thread == IF cr.thread_id # 0 THEN cr.thread_id ELSE NewId(threads)
                   threads1 == IF cr.thread_id # 0 THEN threads
                               ELSE Insert(threads, Thread(thread, u, Title(cr.message),
                                                           cr.provider, cr.model_name, now))
                   user_message == UserMessage(messages, thread, cr, now)
                   messages1 == Insert(messages, user_message)
                   q1 == [q0 EXCEPT !.api_key = DecryptApiKey(key.encrypted_key),
                                    !.api_key_record = key.id,
                                    !.uuid = Uuid(uuids + 1),
                                    !.uuid2 = Uuid2(uuids + 1),
                                    !.thread = thread,
                                    !.user_message = user_message.id,
                                    !.messages =
                                        MessageResponses(History(messages1, thread, cr.branch_id)),
                                    !.conversation_history =
                                        RoleContent(History(messages1, thread, cr.branch_id)),
                                    !.status = IF cr.stream THEN 200 ELSE 0,
                                    !.pc = "started"]
               IN /\ threads' = threads1
                  /\ messages' = messages1
                  /\ clock' = now
                  /\ uuids' = uuids + 1
                  /\ IF cr.stream
                     THEN req' = [req EXCEPT ![r] = q1] /\ UNCHANGED STREAMING_CACHE
                     ELSE Commit(r, GenStartOp(q1, STREAMING_CACHE))
                  /\ UNCHANGED <<result, api_keys, branches, shared_links>>

\* the streamed response starts the generator, app.py:1042-1051, 1169-1171
GenStart(r) ==
    /\ req[r].pc = "started"
    /\ Commit(r, GenStartOp(req[r], STREAMING_CACHE))
    /\ UNCHANGED <<result, api_keys, branches, shared_links, threads, messages, clock, uuids>>

\* app.py:1172-1177: one cached increment is replayed; after the last one
\* the generator returns
Replay(r) ==
    /\ req[r].pc = "replay"
    /\ LET q == req[r] IN
       IF q.i < Len(q.cached_chunks)
       THEN req' = [req EXCEPT ![r] =
                [q EXCEPT !.i = q.i + 1,
                          !.frames = Append(@, ContentFrame(q.cached_chunks[q.i + 1],
                                                            q.start_chunk + q.i, q.stream_id))]]
       ELSE req' = [req EXCEPT ![r] = Aggregate([q EXCEPT !.pc = "replayed"], FALSE)]
    /\ UNCHANGED <<result, api_keys, branches, shared_links, threads, messages, STREAMING_CACHE, clock, uuids>>

\* app.py:1188-1206: the first completion call of a loop iteration raises
CallRaises(r) ==
    /\ req[r].pc = "call"
    /\ LET q == req[r]
           kw == CompletionKwargs(q.chat_request, q.conversation_history, q.api_key,
                                  q.chat_request.stream)
           st == [St(r) EXCEPT !.q.completion_kwargs = kw,
                               !.q.calls = Append(@, kw),
                               !.q.raised = Append(@, TRUE)]
       IN Commit(r, AfterAttempt(Caught(st, ErrUpstream)))
    /\ UNCHANGED <<result, api_keys, branches, shared_links, threads, messages, clock, uuids>>

\* app.py:1188-1252: the completion call returns resp; an iterable response
\* of a streaming call is consumed chunk by chunk, any other is one chunk
CallReturns(r, responses) ==
    /\ req[r].pc = "call"
    /\ \E resp \in responses :
       LET q == req[r]
           kw == CompletionKwargs(q.chat_request, q.conversation_history, q.api_key,
                                  q.chat_request.stream)
           st == [St(r) EXCEPT !.q.completion_kwargs = kw,
                               !.q.calls = Append(@, kw),
                               !.q.raised = Append(@, FALSE),
                               !.q.response = <<resp>>,
                               !.q.consumed = 0]
       IN IF kw.stream /\ resp.shape # "single"
          THEN Commit(r, [st EXCEPT !.q.pc = "consume"])
          ELSE Commit(r, AfterAttempt(SingleChunk(st, kw.stream)))
    /\ UNCHANGED <<result, api_keys, branches, shared_links, threads, messages, clock, uuids>>

\* app.py:1213-1217, 1236-1240: the stream, which yields at most length
\* chunks, yields one more chunk
ConsumeChunk(r, chunks, length) ==
    /\ req[r].pc = "consume"
    /\ req[r].consumed < length
    /\ \E chunk \in chunks :
       LET x == ExtractContent(chunk)
           st == [St(r) EXCEPT !.q.consumed = @ + 1]
           st1 == Collect(Extracted(st, x), x.s)
       IN IF x.exc THEN Commit(r, IterFailed(st, ErrType))
          ELSE IF st1.exc THEN Commit(r, IterFailed(st1, ErrKey))
          ELSE Commit(r, st1)
    /\ UNCHANGED <<result, api_keys, branches, shared_links, threads, messages, clock, uuids>>

\* the stream ends
ConsumeEnd(r) ==
    /\ req[r].pc = "consume"
    /\ Commit(r, AfterAttempt(St(r)))
    /\ UNCHANGED <<result, api_keys, branches, shared_links, threads, messages, clock, uuids>>

\* the stream raises in the middle (upstream or transport error); str(e) of
\* the exception is one of errors
ConsumeRaises(r, errors) ==
    /\ req[r].pc = "consume"
    /\ \E e \in errors : Commit(r, IterFailed(St(r), e))
    /\ UNCHANGED <<result, api_keys, branches, shared_links, threads, messages, clock, uuids>>

\* app.py:1267-1280: the non-streaming fallback call raises
FallbackRaises(r) ==
    /\ req[r].pc = "fallback"
    /\ LET kw == [req[r].completion_kwargs EXCEPT !.stream = FALSE]
           st == [St(r) EXCEPT !.q.completion_kwargs = kw,
                               !.q.calls = Append(@, kw),
                               !.q.raised = Append(@, TRUE)]
       IN Commit(r, AfterFallback(st))
    /\ UNCHANGED <<result, api_keys, branches, shared_links, threads, messages, clock, uuids>>

\* app.py:1267-1280: the non-streaming fallback call returns resp
FallbackReturns(r, responses) ==
    /\ req[r].pc = "fallback"
    /\ \E resp \in responses :
       LET kw == [req[r].completion_kwargs EXCEPT !.stream = FALSE]
           st == [St(r) EXCEPT !.q.completion_kwargs = kw,
                               !.q.calls = Append(@, kw),
                               !.q.raised = Append(@, FALSE)]
           x == ExtractContent(resp.obj)
           st1 == Replace(Extracted(st, x), x.s)
       IN IF x.exc \/ x.s = Empty \/ st1.exc
          THEN Commit(r, AfterFallback(IF x.exc THEN st ELSE st1))
          ELSE Commit(r, [st1 EXCEPT !.q.pc = "emit", !.q.i = 0])
    /\ UNCHANGED <<result, api_keys, branches, shared_links, threads, messages, clock, uuids>>

\* app.py:1290-1295: the next content frame
EmitContent(r) ==
    /\ req[r].pc = "emit"
    /\ LET q == req[r]
           idx == q.start_chunk + q.i
       IN /\ idx < Len(q.content_chunks)
          /\ req' = [req EXCEPT ![r] =
                 [q EXCEPT !.i = q.i + 1,
                           !.response_content = @ \o q.content_chunks[idx + 1],
                           !.frames = Append(@, ContentFrame(q.content_chunks[idx + 1],
                                                             idx, q.stream_id))]]
    /\ UNCHANGED <<result, api_keys, branches, shared_links, threads, messages, STREAMING_CACHE, clock, uuids>>

\* app.py:1304-1327: after the last content frame the assistant message is
\* saved (unless the text is blank; a failing commit is logged only) and the
\* done frame is yielded.  The else arm of 1296-1301 is dead code: the loop
\* is left without the error frame only by a break, with content_chunks set.
Finish(r, commit_ok) ==
    /\ req[r].pc = "emit"
    /\ LET q == req[r]
           now == clock + 1
           m == AssistantMessage(messages, q, now)
           done == DoneFrame(q.thread, Len(q.content_chunks), q.stream_id)
       IN /\ q.start_chunk + q.i >= Len(q.content_chunks)
          /\ IF IsBlank(q.response_content)
             THEN /\ commit_ok
                  /\ req' = [req EXCEPT ![r] = [q EXCEPT !.pc = "done_sent",
                                                         !.frames = Append(@, done)]]
                  /\ UNCHANGED <<threads, messages, clock>>
             ELSE IF commit_ok
             THEN /\ messages' = Insert(messages, m)
                  /\ threads' = {IF t.id = q.thread THEN [t EXCEPT !.updated_at = now] ELSE t
                                 : t \in threads}
                  /\ clock' = now
                  /\ req' = [req EXCEPT ![r] = [q EXCEPT !.pc = "done_sent",
                                                         !.assistant_message = m.id,
                                                         !.frames = Append(@, done)]]
             ELSE /\ req' = [req EXCEPT ![r] = [q EXCEPT !.pc = "done_sent",
                                                         !.commit_failed = TRUE,
                                                         !.frames = Append(@, done)]]
                  /\ UNCHANGED <<threads, messages, clock>>
    /\ UNCHANGED <<result, api_keys, branches, shared_links, STREAMING_CACHE, uuids>>

\* app.py:1285-1288, 1298-1301, 1328-1330: after the terminal frame the
\* cache entry is deleted and the generator ends
Cleanup(r) ==
    /\ req[r].pc \in {"error_sent", "done_sent"}
    /\ LET q == req[r] IN
       /\ STREAMING_CACHE' = Discard(STREAMING_CACHE, q.stream_id)
       /\ req' = [req EXCEPT ![r] =
              Aggregate([q EXCEPT !.pc = IF q.pc = "done_sent" THEN "finished" ELSE "failed"],
                        FALSE)]
    /\ UNCHANGED <<result, api_keys, branches, shared_links, threads, messages, clock, uuids>>

\* app.py:1332-1343: the response is a StreamingResponse over the generator;
\* when the client goes away the server cancels the task that iterates it,
\* and the generator is not resumed from the await or yield it is
\* suspended at
Suspended == {"started", "replay", "call", "consume", "fallback", "emit",
              "error_sent", "done_sent"}

\* a faulty ClientDisconnect, for C13: the cancelled generator removes its
\* cache entry
ClientDisconnectForgets(r) ==
    /\ req[r].pc \in Suspended
    /\ req[r].chat_request.stream
    /\ req' = [req EXCEPT ![r].pc = "cancelled"]
    /\ STREAMING_CACHE' = Discard(STREAMING_CACHE, req[r].stream_id)
    /\ UNCHANGED <<result, api_keys, branches, shared_links, threads, messages, clock, uuids>>

ClientDisconnect(r) ==
    /\ req[r].pc \in Suspended
    /\ req[r].chat_request.stream
    /\ req' = [req EXCEPT ![r].pc = "cancelled"]
    /\ UNCHANGED <<result, api_keys, branches, shared_links, threads, messages, STREAMING_CACHE, clock, uuids>>

----------------------------------------------------------------------------
(* The thread endpoints                                                    *)

\* no thread endpoint was called yet
NoResult ==
    [op |-> "none", current_user |-> None, status |-> 0, thread_id |-> 0, branch_id |-> None,
     message_id |-> 0, link_id |-> None, messages |-> << >>]

\* app.py:675-678: a branch_id that is absent or empty selects the main line
Branch(branch_id) == IF branch_id = None \/ branch_id = "" THEN None ELSE branch_id

\* GET /threads/{thread_id}/messages, app.py:632-700
GetThreadMessages(u, thread_id, branch_id) ==
    /\ LET owned == {t \in threads : t.id = thread_id /\ t.user_id = u}
           answer == [NoResult EXCEPT !.op = "get_thread_messages", !.current_user = u,
                                      !.thread_id = thread_id, !.branch_id = branch_id]
       IN IF ~IsUuid(thread_id)
          THEN result' = [answer EXCEPT !.status = 500]
          ELSE IF owned = {}
          THEN result' = [answer EXCEPT !.status = 404]
          ELSE result' = [answer EXCEPT
                             !.status = 200,
                             !.messages = MessageResponses(
                                 History(messages, thread_id, Branch(branch_id)))]
    /\ UNCHANGED <<api_keys, branches, shared_links, threads, messages, STREAMING_CACHE, clock, uuids, req>>

\* the branch ids in use
Branches(msgs) == {m.branch_id : m \in msgs} \ {None}

\* app.py:744: str(uuid.uuid4()), a value no earlier call drew
BranchUuid(n) == "uuid-b" \o ToString(n)

\* app.py:759-767: the rows create_branch copies, oldest first: the main
\* line of the thread up to the creation time of the message
UpTo(msgs, thread_id, message) ==
    OrderByCreated({m \in msgs : /\ m.thread_id = thread_id
                                 /\ m.created_at <= message.created_at
                                 /\ m.branch_id = None})

\* a faulty CopyOf, for C20: the parent link is not carried over
CopyOfNoParent(msg, id, branch_id) ==
    Message(id, msg.thread_id, msg.role, msg.content, msg.created_at, 0, branch_id)

\* app.py:769-780: the copy of a row in the new branch
CopyOf(msg, id, branch_id) ==
    Message(id, msg.thread_id, msg.role, msg.content, msg.created_at,
            msg.parent_message_id, branch_id)

\* a faulty Branched, for C19: the rows are moved to the branch, not copied
BranchedByMove(msgs, thread_id, message, branch_id) ==
    LET src == UpTo(msgs, thread_id, message)
    IN (msgs \ {src[j] : j \in 1..Len(src)})
       \cup {[src[j] EXCEPT !.branch_id = branch_id] : j \in 1..Len(src)}

\* app.py:769-782: the table after create_branch
Branched(msgs, thread_id, message, branch_id) ==
    LET src == UpTo(msgs, thread_id, message)
    IN msgs \cup {CopyOf(src[j], NewId(msgs) + j - 1, branch_id) : j \in 1..Len(src)}

\* POST /threads/{thread_id}/branch/{message_id}, app.py:721-791.  The
\* answer carries the thread only; branch_id is the local variable of
\* line 744.
CreateBranch(u, thread_id, message_id) ==
    /\ branches < MaxBranches
    /\ LET owned == {t \in threads : t.id = thread_id /\ t.user_id = u}
           found == {m \in messages : m.id = message_id /\ m.thread_id = thread_id}
           branch_id == BranchUuid(branches + 1)
           answer == [NoResult EXCEPT !.op = "create_branch", !.current_user = u, !.thread_id = thread_id,
                                      !.message_id = message_id]
       IN IF ~IsUuid(thread_id) \/ (owned # {} /\ ~IsUuid(message_id))
          THEN /\ result' = [answer EXCEPT !.status = 500]
               /\ UNCHANGED <<messages, branches>>
          ELSE IF owned = {} \/ found = {}
          THEN /\ result' = [answer EXCEPT !.status = 404]
               /\ UNCHANGED <<messages, branches>>
          ELSE /\ result' = [answer EXCEPT !.status = 200, !.branch_id = branch_id]
               /\ messages' = Branched(messages, thread_id,
                                       CHOOSE m \in found : TRUE, branch_id)
               /\ branches' = branches + 1
    /\ UNCHANGED <<api_keys, shared_links, threads, STREAMING_CACHE, clock, uuids, req>>

\* DELETE /threads/{thread_id}, app.py:702-719; the messages and the share
\* links of the thread go with it (models.py:80-81)
DeleteThread(u, thread_id) ==
    /\ LET owned == {t \in threads : t.id = thread_id /\ t.user_id = u}
           answer == [NoResult EXCEPT !.op = "delete_thread", !.current_user = u, !.thread_id = thread_id]
       IN IF ~IsUuid(thread_id)
          THEN /\ result' = [answer EXCEPT !.status = 500]
               /\ UNCHANGED <<threads, messages, shared_links>>
          ELSE IF owned = {}
          THEN /\ result' = [answer EXCEPT !.status = 404]
               /\ UNCHANGED <<threads, messages, shared_links>>
          ELSE /\ result' = [answer EXCEPT !.status = 200]
               /\ threads' = threads \ owned
               /\ messages' = {m \in messages : m.thread_id # thread_id}
               /\ shared_links' = {l \in shared_links : l.thread_id # thread_id}
    /\ UNCHANGED <<api_keys, branches, STREAMING_CACHE, clock, uuids, req>>

\* models.py:97-108; expires_at << >> is NULL
SharedLink(thread_id, user, link_id, expires_at, now) ==
    [thread_id |-> thread_id, user_id |-> user, link_id |-> link_id,
     expires_at |-> expires_at, created_at |-> now]

\* app.py:808: str(uuid.uuid4()), a value no earlier call drew; the model
\* names it after the instant of the call
LinkUuid(now) == "uuid-l" \o ToString(now)

\* app.py:809-811: no expiry when expires_in_hours is absent or 0
ExpiresAt(now, expires_in_hours) ==
    IF expires_in_hours = 0 THEN << >> ELSE <<now + expires_in_hours>>

\* POST /threads/{thread_id}/share, app.py:793-829
CreateShareLink(u, thread_id, expires_in_hours) ==
    /\ Cardinality(shared_links) < MaxLinks
    /\ LET owned == {t \in threads : t.id = thread_id /\ t.user_id = u}
           now == clock + 1
           answer == [NoResult EXCEPT !.op = "create_share_link", !.current_user = u, !.thread_id = thread_id]
       IN IF ~IsUuid(thread_id)
          THEN /\ result' = [answer EXCEPT !.status = 500]
               /\ UNCHANGED <<shared_links, clock>>
          ELSE IF owned = {}
          THEN /\ result' = [answer EXCEPT !.status = 404]
               /\ UNCHANGED <<shared_links, clock>>
          ELSE /\ result' = [answer EXCEPT !.status = 200, !.link_id = LinkUuid(now)]
               /\ shared_links' = Insert(shared_links,
                      SharedLink(thread_id, u, LinkUuid(now),
                                 ExpiresAt(now, expires_in_hours), now))
               /\ clock' = now
    /\ UNCHANGED <<api_keys, branches, threads, messages, STREAMING_CACHE, uuids, req>>

\* a faulty Expired, for C22: the expiry is not looked at
ExpiredNever(shared_link, now) == FALSE

\* app.py:842: the link has an expiry and it lies before now
Expired(shared_link, now) ==
    shared_link.expires_at # << >> /\ shared_link.expires_at[1] < now

\* GET /shared/{link_id}, app.py:831-898; the caller is not authenticated
GetSharedThread(link_id, branch_id) ==
    /\ LET found == {l \in shared_links : l.link_id = link_id}
           answer == [NoResult EXCEPT !.op = "get_shared_thread", !.link_id = link_id,
                                      !.branch_id = branch_id]
       IN IF found = {}
          THEN result' = [answer EXCEPT !.status = 404]
          ELSE LET shared_link == CHOOSE l \in found : TRUE
               IN IF Expired(shared_link, clock)
                  THEN result' = [answer EXCEPT !.status = 410]
                  ELSE result' = [answer EXCEPT
                                     !.status = 200,
                                     !.thread_id = shared_link.thread_id,
                                     !.messages = MessageResponses(
                                         History(messages, shared_link.thread_id,
                                                 Branch(branch_id)))]
    /\ UNCHANGED <<api_keys, branches, threads, messages, shared_links, STREAMING_CACHE, clock, uuids, req>>

\* time passes between the requests, as long as a link is still to expire
Tick ==
    /\ \E l \in shared_links : l.expires_at # << >> /\ ~Expired(l, clock)
    /\ clock' = clock + 1
    /\ UNCHANGED <<api_keys, branches, threads, messages, shared_links, STREAMING_CACHE, uuids, req, result>>

----------------------------------------------------------------------------
(* The specification                                                       *)

Users == {"u1", "u2"}
Hi == <<"h", "i">>
Gpt4 == <<"g", "4">>

\* the stored keys: u1 has an exact openai key and only an inactive cohere
\* key; u2 has a provider-wide openai key
InitialKeys ==
    {APIKey(1, "u1", "openai", Gpt4, "sk-1", TRUE),
     APIKey(2, "u1", "cohere", <<"*">>, "sk-2", FALSE),
     APIKey(3, "u2", "openai", <<"*">>, "sk-3", TRUE)}

\* the requests the clients send: <<user, request>>.  New-thread and
\* follow-up requests, streamed or not; requests that name the stream s1,
\* from the start or resuming at chunk k; a request on a branch; a request
\* for a provider the user has no active key for; requests of a second user
SpecCalls ==
    ({"u1"} \X
       ({ChatRequest(Hi, t, "openai", Gpt4, s, None, 0, None) :
            t \in 0..(MaxRequests - 1), s \in BOOLEAN}
        \cup {ChatRequest(Hi, 0, "openai", Gpt4, TRUE, None, k, "s1") : k \in 0..MaxChunks}
        \cup {ChatRequest(Hi, 0, "openai", Gpt4, FALSE, None, 1, "s1"),
              ChatRequest(Hi, 1, "openai", Gpt4, TRUE, "b1", 0, None),
              ChatRequest(Hi, 0, "cohere", Gpt4, TRUE, None, 0, None)}))
    \cup
    ({"u2"} \X
       {ChatRequest(Hi, 1, "openai", Gpt4, TRUE, None, 0, None),
        ChatRequest(Hi, 0, "openai", Gpt4, TRUE, None, 1, "s1"),
        ChatRequest(Hi, 0, "cohere", Gpt4, FALSE, None, 0, None)})

\* what the upstream stream yields: text, a token delta, blank text, an
\* empty chunk, an unrecognised object, an object whose inspection raises
SpecChunks ==
    {StrChunk(<<"a">>), DeltaChunk(<<"a">>), StrChunk(<<" ">>), FalsyChunk, OpaqueChunk,
     [BaseChunk EXCEPT !.choices = <<Choice(Part(Empty), NoPart, Empty)>>]}

\* what a streaming completion call returns: a sync generator, an async
\* stream wrapper, a list of chunks (its str() is not a placeholder), one
\* aggregate object
SpecStreamResponses ==
    {[obj |-> OpaqueChunk, shape |-> "iter"],
     [obj |-> OpaqueChunk, shape |-> "aiter"],
     [obj |-> [BaseChunk EXCEPT !.repr = <<"[", "]">>], shape |-> "iter"],
     [obj |-> StrChunk(<<"a">>), shape |-> "single"]}

\* what a non-streaming completion call returns: an aggregate object with
\* text, with blank text, with no text
SpecPlainResponses ==
    {[obj |-> MessageChunk(<<"a">>), shape |-> "single"],
     [obj |-> MessageChunk(<<" ">>), shape |-> "single"],
     [obj |-> MessageChunk(Empty), shape |-> "single"]}

Responses(stream) == IF stream THEN SpecStreamResponses ELSE SpecPlainResponses

Init ==
    /\ api_keys = InitialKeys
    /\ threads = {}
    /\ messages = {}
    /\ shared_links = {}
    /\ STREAMING_CACHE = [k \in {} |-> << >>]
    /\ clock = 0
    /\ uuids = 0
    /\ branches = 0
    /\ req = [r \in Requests |-> IdleReq]
    /\ result = NoResult

\* the steps of the generator of request r
Step(r) ==
    \/ GenStart(r)
    \/ Replay(r)
    \/ CallRaises(r)
    \/ CallReturns(r, Responses(req[r].chat_request.stream))
    \/ ConsumeChunk(r, SpecChunks, MaxChunks)
    \/ ConsumeEnd(r)
    \/ ConsumeRaises(r, {ErrUpstream})
    \/ FallbackRaises(r)
    \/ FallbackReturns(r, SpecPlainResponses)
    \/ EmitContent(r)
    \/ \E ok \in BOOLEAN : Finish(r, ok)
    \/ Cleanup(r)
    \/ ClientDisconnect(r)

\* Spec: the clients send one request after the other; a request is served
\* to its end (or until its client disconnects) before the next arrives
Next ==
    \E r \in Serial :
        \/ \E c \in SpecCalls : Chat(r, c[1], c[2])
        \/ Step(r)

Spec == Init /\ [][Next]_vars

----------------------------------------------------------------------------
(* SpecKeys: credential resolution over arbitrary stored keys.  The table  *)
(* api_keys starts as any set of at most MaxKeys rows; the clients send    *)
(* requests, and each is resolved against it.                              *)

Gpt3 == <<"g", "3">>

\* every row the table may hold: of either user, for either provider, for
\* the model the requests name, another model, or provider-wide ('*', ''),
\* active or not
KeyUniverse ==
    LET users == <<"u1", "u2">>
        providers == <<"openai", "cohere">>
        models == <<Gpt4, Gpt3, <<"*">>, Empty>>
        states == <<TRUE, FALSE>>
        id(u, p, m, a) == (((u - 1) * Len(providers) + (p - 1)) * Len(models) + (m - 1))
                              * Len(states) + a
    IN {APIKey(id(u, p, m, a), users[u], providers[p], models[m],
               "sk-" \o ToString(id(u, p, m, a)), states[a]) :
            u \in 1..2, p \in 1..2, m \in 1..4, a \in 1..2}

SpecKeyCalls ==
    {<<u, ChatRequest(Hi, 0, p, Gpt4, TRUE, None, 0, None)>> :
        u \in Users, p \in {"openai", "cohere"}}

\* the tables of at most n rows
RECURSIVE KeyTables(_)
KeyTables(n) ==
    IF n = 0 THEN {{}}
    ELSE LET smaller == KeyTables(n - 1)
         IN smaller \cup {ks \cup {k} : ks \in smaller, k \in KeyUniverse}

InitKeys ==
    /\ api_keys \in KeyTables(MaxKeys)
    /\ threads = {}
    /\ messages = {}
    /\ shared_links = {}
    /\ STREAMING_CACHE = [k \in {} |-> << >>]
    /\ clock = 0
    /\ uuids = 0
    /\ branches = 0
    /\ req = [r \in Requests |-> IdleReq]
    /\ result = NoResult

NextKeys ==
    \E r \in Serial : \E c \in SpecKeyCalls : Chat(r, c[1], c[2])

SpecKeys == InitKeys /\ [][NextKeys]_vars

----------------------------------------------------------------------------
(* SpecStore: threads, branches and their histories.  The clients send     *)
(* unstreamed requests, upstream answers each with a text, and between     *)
(* the requests the clients read histories and create branches.            *)

\* the requests of SpecStore: of u1 on a new thread or a stored one, on the
\* main line or a branch in use; of u2 on a new thread
SpecStoreCalls ==
    {<<"u1", ChatRequest(Hi, t, "openai", Gpt4, FALSE, b, 0, None)>> :
        t \in {0} \cup {x.id : x \in threads}, b \in {None} \cup Branches(messages)}
    \cup {<<"u2", ChatRequest(Hi, 0, "openai", Gpt4, FALSE, None, 0, None)>>}

\* the steps of the generator of request r in SpecStore
StepStore(r) ==
    \/ CallReturns(r, {[obj |-> MessageChunk(<<"a">>), shape |-> "single"]})
    \/ EmitContent(r)
    \/ Finish(r, TRUE)
    \/ Cleanup(r)

NextStore ==
    \/ \E r \in Serial :
           (\E c \in SpecStoreCalls : Chat(r, c[1], c[2])) \/ StepStore(r)
    \/ \E u \in Users, t \in 1..MaxRequests, b \in {None, ""} \cup Branches(messages) :
           GetThreadMessages(u, t, b)
    \/ \E u \in Users, t \in 1..MaxRequests, m \in 1..(NewId(messages)) :
           CreateBranch(u, t, m)

SpecStore == Init /\ [][NextStore]_vars

----------------------------------------------------------------------------
(* SpecNotFound: the thread endpoints and their failures.  The clients     *)
(* send unstreamed requests; u1 reads, branches, shares and deletes        *)
(* threads between the requests: its own, those of u2, absent ones, and    *)
(* ids that are no UUID.                                                   *)

\* the requests of SpecNotFound: of u1 on a new thread, on thread 2 (stored
\* or not, its own or not), on an id that is no UUID, and on thread 2 for
\* a provider u1 has no active key for; of u2 on a new thread
SpecNotFoundCalls ==
    {<<"u1", ChatRequest(Hi, t, "openai", Gpt4, FALSE, None, 0, None)>> : t \in {-1, 0, 2}}
    \cup {<<"u1", ChatRequest(Hi, 2, "cohere", Gpt4, FALSE, None, 0, None)>>,
          <<"u2", ChatRequest(Hi, 0, "openai", Gpt4, FALSE, None, 0, None)>>}

\* the thread ids and message ids u1 names
SpecThreadIds == {-1} \cup 1..MaxRequests
SpecMessageIds == {-1, 1, NewId(messages) - 1, NewId(messages)}

\* no request is being served
Quiet == \A r \in Requests : req[r].pc \in {"idle"} \cup Ended

NextNotFound ==
    \/ \E r \in Serial :
           (\E c \in SpecNotFoundCalls : Chat(r, c[1], c[2])) \/ StepStore(r)
    \/ Quiet /\ \E t \in SpecThreadIds : GetThreadMessages("u1", t, None)
    \/ Quiet /\ \E t \in SpecThreadIds, m \in SpecMessageIds : CreateBranch("u1", t, m)
    \/ Quiet /\ \E t \in SpecThreadIds : DeleteThread("u1", t)
    \/ Quiet /\ \E t \in SpecThreadIds : CreateShareLink("u1", t, 0)

SpecNotFound == Init /\ [][NextNotFound]_vars

----------------------------------------------------------------------------
(* SpecShare: share links and the passing of time.  u1 sends unstreamed    *)
(* requests on new threads and between them branches, shares (with and    *)
(* without an expiry) and deletes its threads; anyone reads the links,     *)
(* stored or not.                                                          *)

SpecShareCalls ==
    {<<"u1", ChatRequest(Hi, 0, "openai", Gpt4, FALSE, None, 0, None)>>}

NextShare ==
    \/ \E r \in Serial :
           (\E c \in SpecShareCalls : Chat(r, c[1], c[2])) \/ StepStore(r)
    \/ Quiet /\ \E t \in 1..MaxRequests : CreateBranch("u1", t, 1)
    \/ Quiet /\ \E t \in 1..MaxRequests : DeleteThread("u1", t)
    \/ Quiet /\ \E t \in 1..MaxRequests, h \in {0, 1} : CreateShareLink("u1", t, h)
    \/ Quiet /\ \E n \in 0..clock, b \in {None} \cup Branches(messages) :
                    GetSharedThread(LinkUuid(n), b)
    \/ Quiet /\ Tick

SpecShare == Init /\ [][NextShare]_vars

----------------------------------------------------------------------------
(* SpecEndless: a pathological upstream.  u1 sends streamed requests, and  *)
(* the stream upstream returns yields chunk after chunk without text, more *)
(* of them than max_chunks, before it ends.                                *)

SpecEndlessCalls ==
    {<<"u1", ChatRequest(Hi, 0, "openai", Gpt4, TRUE, None, 0, None)>>}

\* how many chunks the pathological stream yields
EndlessLength == max_chunks + MaxChunks

NextEndless ==
    \E r \in Serial :
        \/ \E c \in SpecEndlessCalls : Chat(r, c[1], c[2])
        \/ GenStart(r)
        \/ CallReturns(r, {[obj |-> OpaqueChunk, shape |-> "iter"]})
        \/ ConsumeChunk(r, {FalsyChunk}, EndlessLength)
        \/ ConsumeEnd(r)
        \/ FallbackReturns(r, {[obj |-> MessageChunk(<<"a">>), shape |-> "single"]})
        \/ EmitContent(r)
        \/ Finish(r, TRUE)
        \/ Cleanup(r)

SpecEndless == Init /\ [][NextEndless]_vars

----------------------------------------------------------------------------
(* SpecExtract: extract_content_from_chunk over the chunk shapes.  u1      *)
(* sends unstreamed requests, and the completion call returns one object   *)
(* of any of the shapes below, which the relay hands to the function.      *)

A == <<"a">>
B == <<"b">>

\* the mappings: a text under each key, an empty text before a text, two
\* texts, a mapping with content under message and under delta, a mapping
\* without content before a text, and a key that is not looked at
SpecExtractItems ==
    {(k :> StrVal(A)) : k \in {"content", "text", "message", "delta"}}
    \cup {("content" :> StrVal(Empty)) @@ ("text" :> StrVal(B)),
          ("content" :> StrVal(A)) @@ ("text" :> StrVal(B)),
          ("message" :> DictVal(TRUE, A)),
          ("delta" :> DictVal(TRUE, A)),
          ("message" :> DictVal(FALSE, Empty)) @@ ("delta" :> StrVal(B)),
          ("role" :> StrVal(A))}

\* the chunks: nothing, a text, the token-streaming and the aggregate shape
\* with and without text, the latter as a container and as a plain object,
\* the mappings, an object with .content, an object whose str() is a text,
\* an object of no known shape
SpecExtractChunks ==
    {FalsyChunk, StrChunk(A), DeltaChunk(A), MessageChunk(A),
     DeltaChunk(Empty), MessageChunk(Empty),
     [BaseChunk EXCEPT !.choices = <<Choice(Part(Empty), NoPart, Empty)>>],
     [BaseChunk EXCEPT !.content = A],
     [BaseChunk EXCEPT !.repr = A],
     OpaqueChunk}
    \cup {DictChunk(d) : d \in SpecExtractItems}

SpecExtractCalls ==
    {<<"u1", ChatRequest(Hi, 0, "openai", Gpt4, FALSE, None, 0, None)>>}

SpecExtractResponses == {[obj |-> c, shape |-> "single"] : c \in SpecExtractChunks}

NextExtract ==
    \E r \in Serial :
        \/ \E c \in SpecExtractCalls : Chat(r, c[1], c[2])
        \/ CallReturns(r, SpecExtractResponses)
        \/ FallbackReturns(r, SpecExtractResponses)
        \/ EmitContent(r)
        \/ Finish(r, TRUE)
        \/ Cleanup(r)

SpecExtract == Init /\ [][NextExtract]_vars

----------------------------------------------------------------------------
(* SpecConcurrent: two streamed requests of u1 in flight at once.  Each    *)
(* names its stream, s1 or s2: the two relays run on one stream id or on   *)
(* two.  Upstream answers with an async stream, so that the relays         *)
(* interleave at every chunk (`async for`, app.py:1213) and at every yield. *)

SpecConcurrentCalls ==
    {<<"u1", ChatRequest(Hi, 0, "openai", Gpt4, TRUE, None, 0, sid)>> : sid \in {"s1", "s2"}}

\* the stream of the first request yields a's, that of the second b's
SpecConcurrentChunks(r) == {StrChunk(IF r = 1 THEN A ELSE B)}

NextConcurrent ==
    \E r \in Requests :
        \/ \E c \in SpecConcurrentCalls : Chat(r, c[1], c[2])
        \/ GenStart(r)
        \/ CallReturns(r, {[obj |-> OpaqueChunk, shape |-> "aiter"]})
        \/ ConsumeChunk(r, SpecConcurrentChunks(r), MaxChunks)
        \/ ConsumeEnd(r)
        \/ FallbackReturns(r, {[obj |-> MessageChunk(A), shape |-> "single"]})
        \/ EmitContent(r)
        \/ Finish(r, TRUE)
        \/ Cleanup(r)

SpecConcurrent == Init /\ [][NextConcurrent]_vars

----------------------------------------------------------------------------
(* SpecSecrets: what the responses of POST /chat carry when upstream       *)
(* fails.  u1 sends streamed requests; the stream of the completion call   *)
(* raises in the middle, and the text of its exception is upstream's: a    *)
(* plain text, or a text that quotes the api_key the call was given.       *)

SpecSecretsCalls ==
    {<<"u1", ChatRequest(Hi, t, "openai", Gpt4, TRUE, None, 0, None)>> :
        t \in 0..(MaxRequests - 1)}

\* str(e) of the exceptions of a completion call that was given api_key
UpstreamErrors(api_key) == {ErrUpstream, ErrUpstream \o <<api_key>>}

NextSecrets ==
    \E r \in Serial :
        \/ \E c \in SpecSecretsCalls : Chat(r, c[1], c[2])
        \/ GenStart(r)
        \/ CallReturns(r, {[obj |-> OpaqueChunk, shape |-> "iter"]})
        \/ ConsumeChunk(r, {StrChunk(A), FalsyChunk}, MaxChunks)
        \/ ConsumeEnd(r)
        \/ ConsumeRaises(r, UpstreamErrors(req[r].api_key))
        \/ FallbackRaises(r)
        \/ FallbackReturns(r, SpecPlainResponses)
        \/ EmitContent(r)
        \/ Finish(r, TRUE)
        \/ Cleanup(r)

SpecSecrets == Init /\ [][NextSecrets]_vars

----------------------------------------------------------------------------
(* SpecCrossUser: two users and one stream id.  u1 streams a generation    *)
(* under the stream id s1; u2, who has a key of its own, sends a request   *)
(* that names s1 and resumes at chunk 1 while the entry is cached.         *)

SpecCrossUserCalls ==
    {<<"u1", ChatRequest(Hi, 0, "openai", Gpt4, TRUE, None, 0, "s1")>>,
     <<"u2", ChatRequest(Hi, 0, "openai", Gpt4, TRUE, None, 1, "s1")>>}

NextCrossUser ==
    \E r \in Requests :
        \/ \E c \in SpecCrossUserCalls : Chat(r, c[1], c[2])
        \/ GenStart(r)
        \/ Replay(r)
        \/ CallReturns(r, {[obj |-> OpaqueChunk, shape |-> "aiter"]})
        \/ ConsumeChunk(r, {StrChunk(A)}, MaxChunks)
        \/ ConsumeEnd(r)
        \/ FallbackReturns(r, {[obj |-> MessageChunk(B), shape |-> "single"]})
        \/ EmitContent(r)
        \/ Finish(r, TRUE)
        \/ Cleanup(r)

SpecCrossUser == Init /\ [][NextCrossUser]_vars

----------------------------------------------------------------------------
(* SpecSameThread: two requests of u1 in flight at once on one thread.     *)
(* The first creates the thread; the second names it, on the main line or  *)
(* on the branch b1, while the first is still served.                      *)

SpecSameThreadCalls ==
    {<<"u1", ChatRequest(Hi, 0, "openai", Gpt4, TRUE, None, 0, None)>>}
    \cup {<<"u1", ChatRequest(Hi, 1, "openai", Gpt4, TRUE, b, 0, None)>> : b \in {None, "b1"}}

NextSameThread ==
    \E r \in Requests :
        \/ \E c \in SpecSameThreadCalls : Chat(r, c[1], c[2])
        \/ GenStart(r)
        \/ CallReturns(r, {[obj |-> OpaqueChunk, shape |-> "aiter"]})
        \/ ConsumeChunk(r, SpecConcurrentChunks(r), MaxChunks)
        \/ ConsumeEnd(r)
        \/ FallbackReturns(r, {[obj |-> MessageChunk(A), shape |-> "single"]})
        \/ EmitContent(r)
        \/ Finish(r, TRUE)
        \/ Cleanup(r)

SpecSameThread == Init /\ [][NextSameThread]_vars

----------------------------------------------------------------------------
(* The claims                                                              *)

\* the request passed credential and thread resolution
Accepted(q) == q.pc \notin {"idle", "http400", "http404", "http500"}

\* the generator of the request ended by itself: it returned or it raised
Over(q) == q.pc \in {"replayed", "finished", "failed", "crashed"}

\* the user message of request q is in the history of its thread and branch
UserMessageInHistory(q) ==
    LET h == History(messages, q.thread, q.chat_request.branch_id) IN
    \E k \in 1..Len(h) : /\ h[k].id = q.user_message
                         /\ h[k].role = "user"
                         /\ h[k].content = q.chat_request.message

\* C1: the user message of a request is committed before the first upstream
\* call of its relay (a step that makes a completion call starts from a state
\* in which the message is stored) and it is still in the history of the
\* thread after the relay ended, whatever the outcome
C1_UserMessageDurable ==
    /\ [](\A r \in Requests : Accepted(req[r]) => UserMessageInHistory(req[r]))
    /\ [][\A r \in Requests :
            Len(req'[r].calls) > Len(req[r].calls) => UserMessageInHistory(req[r])]_vars

\* C1: a relay whose upstream call raised has ended, and the user message is
\* in the history
C1_Witness ==
    \E r \in Requests : /\ req[r].pc = "crashed"
                        /\ req[r].raised = <<TRUE>>
                        /\ UserMessageInHistory(req[r])

\* the assistant messages stored in reply to the user message of q
Replies(q) ==
    {m \in messages : /\ m.role = "assistant"
                      /\ m.thread_id = q.thread
                      /\ m.parent_message_id = q.user_message}

\* C2: when the upstream call of a relay raised, the relay has, once it is
\* over, stored an assistant message (the partial text or a placeholder)
\* with error_info set
C2_ErrorPersisted ==
    \A r \in Requests :
        (Over(req[r]) /\ \E k \in 1..Len(req[r].raised) : req[r].raised[k])
        => \E m \in Replies(req[r]) : ErrorInfo(m) # None

\* the thread of q was created by q: it has the timestamp of q's user message
CreatedThread(q) ==
    \E t \in threads, m \in messages :
        /\ t.id = q.thread /\ m.id = q.user_message
        /\ t.created_at = m.created_at
        /\ t.user_id = q.current_user

\* frames is one or more content frames and then one done frame of thread
ContentThenDone(frames, thread) ==
    /\ Len(frames) >= 2
    /\ \A k \in 1..(Len(frames) - 1) : frames[k].type = "content"
    /\ frames[Len(frames)].type = "done"
    /\ frames[Len(frames)].thread_id = thread

\* a request for a new thread on the main line, from chunk 0
PlainNew(q) ==
    /\ q.chat_request.thread_id = 0
    /\ q.chat_request.branch_id = None
    /\ q.chat_request.resume_from_chunk = 0

\* the main history of the thread of q is q's message and one reply to it
TwoMessages(q) ==
    LET h == History(messages, q.thread, None) IN
    /\ Len(h) = 2
    /\ h[1].id = q.user_message /\ h[1].role = "user"
    /\ h[1].content = q.chat_request.message
    /\ h[2].role = "assistant" /\ h[2].content # Empty
    /\ h[2].content = ContentOf(q.frames)

NoActiveKey(q) ==
    ~\E k \in api_keys : /\ k.user_id = q.current_user
                          /\ k.provider = q.chat_request.provider
                          /\ k.is_active

\* C4: a request of a user without an active key for the provider is
\* answered 400 at once: it creates no thread, no message and no cache
\* entry, and upstream is never invoked
C4_NoKeyRejected ==
    /\ [](\A r \in Requests :
            (req[r].pc # "idle" /\ NoActiveKey(req[r]))
            => /\ req[r].pc = "http400" /\ req[r].status = 400
               /\ req[r].thread = 0 /\ req[r].user_message = 0
               /\ req[r].stream_id = None /\ req[r].calls = << >>)
    /\ [][\A r \in Requests :
            (req'[r] # req[r] /\ NoActiveKey(req'[r]))
            => UNCHANGED <<threads, messages, STREAMING_CACHE>>]_vars

\* C4: a user whose only key for the provider is inactive was answered 400,
\* with threads and messages of earlier requests in the store
C4_Witness ==
    \E r \in Requests :
        /\ req[r].pc = "http400" /\ NoActiveKey(req[r])
        /\ req[r].current_user = "u1" /\ req[r].chat_request.provider = "cohere"
        /\ threads # {} /\ messages # {}

\* the content frames of the texts lst, numbered from k
Frames(lst, k, sid) == [j \in 1..Len(lst) |-> ContentFrame(lst[j], k + j - 1, sid)]

IsPrefix(a, b) == Len(a) <= Len(b) /\ a = SubSeq(b, 1, Len(a))

\* C5 as amended: when the generator of a request that passed credential and
\* thread resolution starts while the cache of its stream_id holds the
\* increments [0..n), and its resume_from_chunk is k with 1 <= k < n, the
\* request receives exactly the cached increments k..n-1, in order, with
\* chunk_index k..n-1, and upstream is not invoked
C5_ResumeReplays ==
    \A r \in Requests :
        LET q == req[r]
            k == q.chat_request.resume_from_chunk
            expected == Frames(SubSeq(q.seen, k + 1, Len(q.seen)), k, q.stream_id)
        IN (Accepted(q) /\ 1 <= k /\ k < Len(q.seen))
           => /\ q.calls = << >>
              /\ q.pc \in {"replay", "replayed", "cancelled"}
              /\ IsPrefix(q.frames, expected)
              /\ q.pc = "replayed" => q.frames = expected

\* C5: a request resumed a stream of two cached increments at chunk 1 and
\* received the second one
C5_Witness ==
    \E r \in Requests :
        /\ req[r].pc = "replayed"
        /\ req[r].chat_request.resume_from_chunk = 1
        /\ Len(req[r].seen) = 2
        /\ req[r].frames = <<ContentFrame(req[r].seen[2], 1, req[r].stream_id)>>
        /\ req[r].calls = << >>

\* C5 as stated: the same for every k with 0 <= k < n
C5_AsStated ==
    \A r \in Requests :
        LET q == req[r]
            k == q.chat_request.resume_from_chunk
            expected == Frames(SubSeq(q.seen, k + 1, Len(q.seen)), k, q.stream_id)
        IN (Over(q) /\ 0 <= k /\ k < Len(q.seen))
           => /\ q.calls = << >>
              /\ q.frames = expected

\* C6: the frames of a streamed response whose generator returned (a
\* resumption included) are content frames and then exactly one terminal
\* frame, done or error, with nothing after it
C6_OneTerminalFrame ==
    \A r \in Requests :
        LET q == req[r] IN
        (q.pc \in {"replayed", "finished", "failed"} /\ q.chat_request.stream)
        => /\ q.frames # << >>
           /\ q.frames[Len(q.frames)].type \in {"done", "error"}
           /\ \A k \in 1..(Len(q.frames) - 1) : q.frames[k].type = "content"

\* C7 as amended: a relay invokes upstream at most twice; it makes a second
\* call exactly when its first attempt ended without an exception leaving
\* the generator (the first call returned) and left it without text,
\* whether or not streaming was requested; the second call is never a
\* streaming call
C7_AtMostTwoCalls ==
    \A r \in Requests :
        LET q == req[r] IN
        /\ Len(q.calls) <= 2
        /\ Len(q.calls) = 2 => /\ q.attempt1 = "empty"
                               /\ ~q.calls[2].stream
        /\ q.attempt1 = "empty" => (q.raised # << >> /\ ~q.raised[1])
        /\ (Over(q) /\ q.attempt1 = "empty") => Len(q.calls) = 2

\* C7: a request that did not ask for streaming got no text from its first
\* call, made a second call, and ended with the text of the second
C7_Witness ==
    \E r \in Requests :
        /\ req[r].pc = "finished" /\ Len(req[r].calls) = 2
        /\ ~req[r].chat_request.stream
        /\ ~req[r].calls[1].stream /\ ~req[r].calls[2].stream
        /\ req[r].raised = <<FALSE, FALSE>>
        /\ req[r].attempt1 = "empty"

\* C7 as stated: at most two calls; a second call is made exactly when
\* streaming was requested and the first attempt yielded no increment (so a
\* streaming relay that made one call has increments); the second call is
\* never a streaming call
C7_AsStated ==
    \A r \in Requests :
        LET q == req[r] IN
        /\ Len(q.calls) <= 2
        /\ Len(q.calls) = 2 => (q.chat_request.stream /\ ~q.calls[2].stream)
        /\ (Over(q) /\ q.chat_request.stream /\ Len(q.calls) = 1) => q.increments # << >>

\* C8: a relay whose completion call raised makes no further call and ends
\* with a terminal error: with stream=true its last frame is an error frame
\* with its stream id, with stream=false the answer is an error status
C8_UpstreamErrorSurfaces ==
    \A r \in Requests :
        LET q == req[r] IN
        (Over(q) /\ q.raised # << >> /\ q.raised[1])
        => /\ Len(q.calls) = 1
           /\ q.chat_request.stream
              => /\ q.frames # << >>
                 /\ q.frames[Len(q.frames)].type = "error"
                 /\ q.frames[Len(q.frames)].stream_id = q.stream_id
           /\ ~q.chat_request.stream => q.status >= 400

\* C9: a relay that is over (success, terminal failure, replay from the
\* cache) has removed the cache entry of its stream, and when no relay is in
\* flight the cache is empty
C9_CacheReleased ==
    /\ \A r \in Requests : Over(req[r]) => req[r].stream_id \notin DOMAIN STREAMING_CACHE
    /\ (\A r \in Requests : req[r].pc = "idle" \/ Over(req[r]))
       => DOMAIN STREAMING_CACHE = {}

\* C10: the content frames of a relay that ran from chunk 0 to its done
\* frame carry the non-empty increments extracted from what upstream sent,
\* in order, each exactly once, with chunk_index its position
C10_FramesAreIncrements ==
    \A r \in Requests :
        LET q == req[r] IN
        (q.pc = "finished" /\ q.start_chunk = 0)
        => SubSeq(q.frames, 1, Len(q.frames) - 1) = Frames(q.increments, 0, q.stream_id)

\* C11: the assistant message stored at the end of a successful generation
\* holds the concatenation, in order, of all increments of the generation
\* from index 0, also for a request with resume_from_chunk > 0 that is not
\* served from the cache
C11_FullTextPersisted ==
    \A r \in Requests :
        LET q == req[r] IN
        (/\ q.pc \in {"done_sent", "finished"}
         /\ ~q.commit_failed
         /\ ~IsBlank(Concat(q.content_chunks)))
        => \E m \in Replies(q) : m.content = Concat(q.content_chunks)

\* the texts of the content frames among frames
RECURSIVE FrameTexts(_)
FrameTexts(frames) ==
    IF frames = << >> THEN << >>
    ELSE (IF Head(frames).type = "content" THEN <<Head(frames).content>> ELSE << >>)
         \o FrameTexts(Tail(frames))

\* C12: when the done frame of a generation from index 0, whose stream had
\* no cache entry before, is emitted, the cache entry of its stream id is
\* the list of the increments of its content frames, each appended once,
\* with stream=true and with stream=false
C12_CacheIsIncrements ==
    \A r \in Requests :
        LET q == req[r] IN
        (q.pc = "done_sent" /\ q.start_chunk = 0 /\ q.seen = << >>)
        => /\ q.stream_id \in DOMAIN STREAMING_CACHE
           /\ STREAMING_CACHE[q.stream_id] = FrameTexts(q.frames)

\* C13 as amended: a client disconnect leaves the cache as it is, with the
\* entry of the stream of the disconnected response in it; the next request
\* that passes credential and thread resolution with the same stream_id and
\* resume_from_chunk = k, 1 <= k < n for the n increments cached, receives
\* exactly the cached increments from index k on and upstream is not invoked
C13_DisconnectKeepsCache ==
    /\ [](\A r \in Requests :
            LET q == req[r]
                k == q.chat_request.resume_from_chunk
                c == q.resumed[1]
                expected == Frames(SubSeq(c, k + 1, Len(c)), k, q.chat_request.stream_id)
            IN /\ (q.pc = "cancelled" /\ q.stream_id # None)
                  => /\ q.stream_id \in DOMAIN STREAMING_CACHE
                     /\ IsPrefix(q.seen, STREAMING_CACHE[q.stream_id])
                     /\ Len(STREAMING_CACHE[q.stream_id])
                            >= Len(q.seen) + Len(q.content_chunks)
               /\ (Accepted(q) /\ q.resumed # << >> /\ 1 <= k /\ k < Len(c))
                  => /\ q.calls = << >>
                     /\ q.pc \in {"started", "replay", "replayed", "cancelled"}
                     /\ IsPrefix(q.frames, expected)
                     /\ q.pc = "replayed" => q.frames = expected)
    /\ [][\A r \in Requests :
            (req'[r].pc = "cancelled" /\ req[r].pc # "cancelled")
            => STREAMING_CACHE' = STREAMING_CACHE]_vars

\* C13: a client disconnected with two increments cached; the next request
\* named the stream with resume_from_chunk = 1 and received the second
C13_Witness ==
    \E r \in Requests :
        /\ req[r].pc = "replayed"
        /\ req[r].resumed # << >> /\ Len(req[r].resumed[1]) = 2
        /\ req[r].chat_request.resume_from_chunk = 1
        /\ req[r].chat_request.stream
        /\ Len(req[r].frames) = 1
        /\ req[r].frames[1].content = req[r].resumed[1][2]
        /\ req[r].frames[1].chunk_index = 1

\* C13 as stated: after a disconnect the next request with the same
\* stream_id and resume_from_chunk = k receives the cached increments from
\* index k on, for every k
C13_AsStated ==
    \A r \in Requests :
        LET q == req[r]
            k == q.chat_request.resume_from_chunk
            c == q.resumed[1]
        IN (Over(q) /\ q.resumed # << >> /\ c # << >>)
           => FrameTexts(q.frames) = SubSeq(c, k + 1, Len(c))

\* C14: a request whose client disconnected during the streaming of its
\* content frames has persisted what it persists when the client stays to
\* the done frame: the assistant message with the accumulated text (that of
\* the increments from start_chunk on), and updated_at of the thread is the
\* time of that message
C14_DisconnectStillPersists ==
    \A r \in Requests :
        LET q == req[r]
            text == Concat(SubSeq(q.content_chunks, q.start_chunk + 1, Len(q.content_chunks)))
        IN (/\ q.pc = "cancelled"
            /\ \E k \in 1..Len(q.frames) : q.frames[k].type = "content"
            /\ q.cached_chunks = << >>
            /\ ~IsBlank(text))
           => \E m \in Replies(q), t \in threads :
                  /\ m.content = text
                  /\ t.id = q.thread /\ t.updated_at = m.created_at

\* the stored key the request was resolved to
KeyOf(q) == CHOOSE k \in api_keys : k.id = q.api_key_record

\* the active keys of the user of request q for its provider
ActiveKeys(q) ==
    {k \in api_keys : /\ k.user_id = q.current_user
                      /\ k.provider = q.chat_request.provider
                      /\ k.is_active}

IsExact(q, k) == k.model_name = q.chat_request.model_name
IsWide(k) == k.model_name = <<"*">> \/ k.model_name = Empty

\* C15: whatever keys are stored, an accepted request was resolved to an
\* active key of the exact (provider, model) when the user has one; else to
\* an active provider-wide key ('*' or '') when the user has one; else to
\* some active key of the user for the provider
C15_ResolutionPriority ==
    \A r \in Requests : LET q == req[r] IN
        Accepted(q) =>
            /\ \E k \in ActiveKeys(q) : k.id = q.api_key_record
            /\ IF \E k \in ActiveKeys(q) : IsExact(q, k)
               THEN IsExact(q, KeyOf(q))
               ELSE IF \E k \in ActiveKeys(q) : IsWide(k)
               THEN IsWide(KeyOf(q))
               ELSE KeyOf(q) \in ActiveKeys(q)

\* C15: the request was resolved to the exact key while an active
\* provider-wide key and an active key of another model were stored too
C15_Witness ==
    \E r \in Requests : LET q == req[r] IN
        /\ Accepted(q) /\ IsExact(q, KeyOf(q))
        /\ \E k \in ActiveKeys(q) : IsWide(k)
        /\ \E k \in ActiveKeys(q) : k.model_name = Gpt3

\* C16: the key a request is resolved to is a stored key of that user, for
\* that provider, and active, and its decrypted secret is the one handed
\* upstream; the request is answered 400 exactly when the user has no
\* active key for the provider
C16_OnlyOwnActiveKeys ==
    \A r \in Requests : LET q == req[r] IN
        /\ Accepted(q) =>
               \E k \in api_keys :
                   /\ k.id = q.api_key_record
                   /\ k.user_id = q.current_user
                   /\ k.provider = q.chat_request.provider
                   /\ k.is_active
                   /\ q.api_key = DecryptApiKey(k.encrypted_key)
        /\ q.pc # "idle" => (q.pc = "http400" <=> ActiveKeys(q) = {})

\* C16: the request was resolved to the user's only active key for the
\* provider, of another model, while an inactive exact key of the user and
\* an active exact key of another user were stored
C16_Witness ==
    \E r \in Requests : LET q == req[r] IN
        /\ Accepted(q) /\ KeyOf(q).model_name = Gpt3
        /\ \E k \in api_keys : /\ k.user_id = q.current_user /\ ~k.is_active
                                /\ k.provider = q.chat_request.provider /\ IsExact(q, k)
        /\ \E k \in api_keys : /\ k.user_id # q.current_user /\ k.is_active
                                /\ k.provider = q.chat_request.provider /\ IsExact(q, k)

\* the branch a history was asked for: the main line when none is named
AskedBranch(branch_id) == IF branch_id \in {None, ""} THEN None ELSE branch_id

\* C17: every message GET /threads/{id}/messages returned is a stored
\* message of the thread asked for and carries the branch asked for (no
\* branch when none was named), and so is every message a chat request
\* loaded as its prompt context
C17_HistoryScoped ==
    /\ result.op = "get_thread_messages" =>
           \A j \in 1..Len(result.messages) :
               /\ \E m \in messages : /\ m.id = result.messages[j].id
                                       /\ m.thread_id = result.thread_id
               /\ result.messages[j].branch_id = AskedBranch(result.branch_id)
    /\ \A r \in Requests : LET q == req[r] IN
           Accepted(q) =>
               \A j \in 1..Len(q.messages) :
                   /\ \E m \in messages : /\ m.id = q.messages[j].id
                                           /\ m.thread_id = q.thread
                   /\ q.messages[j].branch_id = q.chat_request.branch_id

\* C17: the history of a branch was read, and a request loaded its context,
\* while the thread also held main-line messages and another thread held
\* messages of the same branch_id
C17_Witness ==
    /\ result.op = "get_thread_messages" /\ result.status = 200
    /\ result.messages # << >> /\ AskedBranch(result.branch_id) # None
    /\ \E m \in messages : m.thread_id = result.thread_id /\ m.branch_id = None
    /\ \E m \in messages : m.thread_id # result.thread_id /\ m.branch_id = result.branch_id
    /\ \E r \in Requests : Accepted(req[r]) /\ req[r].messages # << >>

\* C18: reading the history of a thread and branch returns every message
\* stored for them, each once, in ascending creation time, which is the
\* order of their insertion
C18_HistoryRoundTrip ==
    [][(result' # result /\ result'.op = "get_thread_messages" /\ result'.status = 200)
       => LET got == result'.messages
              stored == {m \in messages : /\ m.thread_id = result'.thread_id
                                           /\ m.branch_id = AskedBranch(result'.branch_id)}
          IN /\ Len(got) = Cardinality(stored)
             /\ {got[j] : j \in 1..Len(got)} = {MessageResponse(m) : m \in stored}
             /\ \A i, j \in 1..Len(got) :
                    i < j => /\ got[i].created_at < got[j].created_at
                             /\ got[i].id < got[j].id]_vars

\* C18: the history read is that of a branch: the two copies made when it
\* was created and the two messages a request appended to it
C18_Witness ==
    /\ result.op = "get_thread_messages" /\ result.status = 200
    /\ AskedBranch(result.branch_id) # None
    /\ Len(result.messages) = 4
    /\ result.messages[3].role = "user" /\ result.messages[3].parent_message_id # 0

\* C19: create_branch changes no stored message and no thread: every
\* message stored before is stored after, unchanged; the messages it adds
\* have new ids, belong to the thread, and carry one branch_id that no
\* message carried before
C19_BranchNonDestructive ==
    [][(result' # result /\ result'.op = "create_branch")
       => /\ messages \subseteq messages'
          /\ threads' = threads
          /\ \A m \in messages' \ messages :
                 /\ m.branch_id = result'.branch_id
                 /\ m.branch_id \notin {o.branch_id : o \in messages}
                 /\ m.id \notin {o.id : o \in messages}
                 /\ m.thread_id = result'.thread_id]_vars

\* C19: a second branch was created in a thread that holds its main line
\* and an earlier branch
C19_Witness ==
    /\ result.op = "create_branch" /\ result.status = 200
    /\ \E m \in messages : m.branch_id = result.branch_id
    /\ \E m \in messages : m.thread_id = result.thread_id /\ m.branch_id = None
    /\ \E m \in messages : /\ m.thread_id = result.thread_id
                            /\ m.branch_id \notin {None, result.branch_id}

\* C20: after create_branch the history of the new branch is, message by
\* message, the role, content, created_at and parent_message_id of the
\* main-line messages of the thread created no later than the target
\* message, and the new branch_id was not in use
C20_BranchCopiesPrefix ==
    [][(result' # result /\ result'.op = "create_branch" /\ result'.status = 200)
       => LET target == CHOOSE m \in messages : m.id = result'.message_id
              early(m) == m.created_at <= target.created_at
              main == SelectSeq(History(messages, result'.thread_id, None), early)
              new == History(messages', result'.thread_id, result'.branch_id)
          IN /\ result'.branch_id \notin Branches(messages)
             /\ Len(new) = Len(main)
             /\ \A j \in 1..Len(main) :
                    /\ new[j].role = main[j].role
                    /\ new[j].content = main[j].content
                    /\ new[j].created_at = main[j].created_at
                    /\ new[j].parent_message_id = main[j].parent_message_id]_vars

\* C20: a branch was created at a message that is not the newest of the
\* main line, and a copy carries a parent link
C20_Witness ==
    /\ result.op = "create_branch" /\ result.status = 200
    /\ \E m \in messages : /\ m.branch_id = result.branch_id
                            /\ m.thread_id = result.thread_id
                            /\ m.parent_message_id # 0
    /\ \E t, m \in messages :
           /\ t.id = result.message_id
           /\ m.thread_id = result.thread_id /\ m.branch_id = None
           /\ m.created_at > t.created_at
           /\ \A c \in messages : c.branch_id = result.branch_id => m.id < c.id

\* the thread endpoints that name a thread in their path
ThreadOps == {"get_thread_messages", "delete_thread", "create_branch", "create_share_link"}

\* user u owns a stored thread of that id
Owns(u, thread_id) == \E t \in threads : t.id = thread_id /\ t.user_id = u

\* C21: a thread endpoint called for a thread that is absent or of another
\* user answers 404 and changes nothing, and so does POST /chat with such a
\* thread_id; create_branch for a message that is not of the thread
\* answers 404 and changes nothing
C21_NotFound ==
    [][/\ (/\ result' # result /\ result'.op \in ThreadOps
            /\ \/ ~Owns(result'.current_user, result'.thread_id)
               \/ /\ result'.op = "create_branch"
                  /\ ~\E m \in messages : /\ m.id = result'.message_id
                                           /\ m.thread_id = result'.thread_id)
          => /\ result'.status = 404
             /\ UNCHANGED <<threads, messages, shared_links, STREAMING_CACHE>>
       /\ \A r \in Requests :
              (/\ req'[r] # req[r] /\ req[r].pc \in {"idle"} \cup Ended
               /\ req'[r].chat_request.thread_id # 0
               /\ ~Owns(req'[r].current_user, req'[r].chat_request.thread_id))
              => /\ req'[r].status = 404
                 /\ UNCHANGED <<threads, messages, shared_links, STREAMING_CACHE>>]_vars

\* C22: GET /shared/{link_id}, which takes no user, answers 404 for a link
\* that is not stored; for a stored link without expiry, or whose expiry
\* lies in the future, it answers with the history of the linked thread
\* for the branch asked for (the main line when none), oldest first; for a
\* stored link whose expiry has passed it answers 410.  Time never goes
\* back and a stored link never changes, so a link that answered 410 does
\* so for as long as it is stored.
C22_SharedUntilExpiry ==
    [][/\ clock' >= clock
       /\ \A l \in shared_links, k \in shared_links' : k.link_id = l.link_id => k = l
       /\ (result' # result /\ result'.op = "get_shared_thread")
          => LET got == result'.messages
                 now == clock
             IN /\ result'.current_user = None
                /\ UNCHANGED <<threads, messages, shared_links>>
                /\ (\A l \in shared_links : l.link_id # result'.link_id)
                      => result'.status = 404
                /\ \A l \in shared_links :
                      (l.link_id = result'.link_id /\ l.expires_at # << >>
                       /\ l.expires_at[1] < now)
                      => result'.status = 410 /\ got = << >>
                /\ \A l \in shared_links :
                      (l.link_id = result'.link_id
                       /\ (l.expires_at = << >> \/ l.expires_at[1] > now))
                      => LET stored == {m \in messages :
                                          /\ m.thread_id = l.thread_id
                                          /\ m.branch_id = AskedBranch(result'.branch_id)}
                         IN /\ result'.status = 200
                            /\ Len(got) = Cardinality(stored)
                            /\ {got[j] : j \in 1..Len(got)}
                                   = {MessageResponse(m) : m \in stored}
                            /\ \A i, j \in 1..Len(got) :
                                   i < j => got[i].created_at < got[j].created_at]_vars

\* C22: a stored link of a thread with messages, whose expiry has passed,
\* answered 410
C22_Witness ==
    /\ result.op = "get_shared_thread" /\ result.status = 410
    /\ \E l \in shared_links :
           /\ l.link_id = result.link_id
           /\ l.expires_at # << >> /\ l.expires_at[1] < clock
           /\ \E m \in messages : m.thread_id = l.thread_id

\* C23: the relay consumes at most max_chunks chunks of an upstream stream
C23_ConsumptionCapped ==
    \A r \in Requests : req[r].consumed <= max_chunks

\* C24: consuming one more chunk of the upstream stream never ends the
\* consumption: the relay goes on with the stream, and what it collected
\* from the chunks before is kept
C24_MalformedChunkSkipped ==
    [][\A r \in Requests :
          (req[r].pc = "consume" /\ req'[r].consumed = req[r].consumed + 1)
          => /\ req'[r].pc = "consume"
             /\ IsPrefix(req[r].content_chunks, req'[r].content_chunks)
             /\ Len(req'[r].content_chunks) <= Len(req[r].content_chunks) + 1]_vars

\* the first key of a mapping, among content, text, message and delta,
\* that is present with a non-empty value; 0 when there is none
FirstKey(items) ==
    LET hits == {i \in 1..Len(DictKeys) :
                    DictKeys[i] \in DOMAIN items /\ items[DictKeys[i]].truthy}
    IN IF hits = {} THEN 0 ELSE CHOOSE i \in hits : \A j \in hits : i <= j

\* the chunk has none of the supported shapes and no text of its own
Unrecognized(c) ==
    /\ c.kind = "obj"
    /\ \A j \in 1..Len(c.choices) :
           /\ c.choices[j].delta.content = Empty
           /\ c.choices[j].message.content = Empty
           /\ c.choices[j].text = Empty
    /\ c.d = NoItems /\ c.content = Empty /\ c.text_m = Empty /\ c.read_m = Empty
    /\ c.complete = NoComplete /\ c.chunks = << >>
    /\ (c.repr = Empty \/ StartsWithLt(c.repr))

\* what the relay got from extract_content_from_chunk for the response of
\* the first call of request q
FirstExtract(q) == IF q.increments = << >> THEN Empty ELSE q.increments[1]

\* C25: extract_content_from_chunk gives a text chunk as it is, the
\* non-empty choices[0].delta.content of a token-streaming chunk, the
\* choices[0].message.content of an aggregate chunk, for a mapping the
\* value of the first present non-empty key among content, text, message
\* and delta (its 'content' when that value is a mapping), and for an
\* empty or unrecognized chunk it gives nothing and does not raise
C25_ExtractByShape ==
    \A r \in Requests : LET q == req[r] IN
        (Accepted(q) /\ Len(q.calls) = 1 /\ q.response # << >>)
        => LET c == q.response[1].obj
               k == FirstKey(c.d)
           IN /\ c.kind = "str" => FirstExtract(q) = c.s
              /\ (c.kind = "obj" /\ c.choices # << >> /\ c.choices[1].delta.content # Empty)
                    => FirstExtract(q) = c.choices[1].delta.content
              /\ (c.kind = "obj" /\ c.choices # << >> /\ ~c.choices[1].delta.truthy
                  /\ c.choices[1].message.content # Empty)
                    => FirstExtract(q) = c.choices[1].message.content
              /\ (c.kind = "dict" /\ k # 0 /\ c.d[DictKeys[k]].vk = "str")
                    => FirstExtract(q) = c.d[DictKeys[k]].s
              /\ (c.kind = "dict" /\ k # 0 /\ c.d[DictKeys[k]].vk = "dict"
                  /\ c.d[DictKeys[k]].has_content)
                    => FirstExtract(q) = c.d[DictKeys[k]].s
              /\ (c.kind = "falsy" \/ Unrecognized(c))
                    => /\ q.increments = << >>
                       /\ q.error_msg # ErrType
                       /\ q.pc # "crashed"

\* the relay of request q reached its done frame and its last upstream call
\* was made with stream = False and returned
NonStreamingDone(q) ==
    /\ q.pc \in {"done_sent", "finished"}
    /\ q.calls # << >>
    /\ ~q.calls[Len(q.calls)].stream
    /\ ~q.raised[Len(q.raised)]

\* C26: when the upstream call that gave the content was made in
\* non-streaming mode (stream=false, or the fallback retry), the content is
\* one increment: the only content frame carries it with chunk_index 0 (a
\* request resuming after it gets no content frame) and the done frame
\* reports total_chunks 1
C26_NonStreamingOneIncrement ==
    \A r \in Requests :
        LET q == req[r]
            content == {j \in 1..Len(q.frames) : q.frames[j].type = "content"}
            done == {j \in 1..Len(q.frames) : q.frames[j].type = "done"}
        IN NonStreamingDone(q)
           => /\ Len(q.content_chunks) = 1
              /\ q.content_chunks[1] # Empty
              /\ Cardinality(content) = (IF q.start_chunk = 0 THEN 1 ELSE 0)
              /\ \A j \in content : /\ q.frames[j].chunk_index = 0
                                     /\ q.frames[j].content = q.content_chunks[1]
              /\ \A j \in done : q.frames[j].total_chunks = 1
              /\ Cardinality(done) = 1

\* a streamed request whose stream gave no text got its content from the
\* fallback retry and reached its done frame
C26_Witness ==
    \E r \in Requests :
        /\ NonStreamingDone(req[r])
        /\ req[r].chat_request.stream
        /\ Len(req[r].calls) = 2
        /\ req[r].start_chunk = 0
        /\ \E j \in 1..Len(req[r].frames) :
              req[r].frames[j].type = "content" /\ req[r].frames[j].chunk_index = 0

\* C27: the JSON object answered to a request with stream=false aggregates
\* the frames of its relay: content is the concatenation of the content
\* frames, and thread_id, total_chunks and stream_id are those of the done
\* frame
C27_JsonAggregatesFrames ==
    \A r \in Requests :
        LET q == req[r] IN
        (~q.chat_request.stream /\ q.pc = "finished" /\ q.status = 200)
        => LET done == q.frames[Len(q.frames)] IN
           /\ done.type = "done"
           /\ q.body.content = Concat(FrameTexts(q.frames))
           /\ q.body.thread_id = done.thread_id
           /\ q.body.total_chunks = done.total_chunks
           /\ q.body.stream_id = done.stream_id

\* C28: every message the relay appends to a thread, the user message as
\* well as the assistant message, advances updated_at of that thread
C28_AppendAdvancesUpdatedAt ==
    [][\A m \in messages' \ messages :
          \A t \in threads :
             t.id = m.thread_id
             => \E t1 \in threads' : t1.id = t.id /\ t1.updated_at > t.updated_at]_vars

\* the relay of request q is between its start and its terminal frame, and
\* between its upstream call and the end of the stream
Running(q) == q.pc \in {"call", "consume", "fallback", "emit", "done_sent", "error_sent"}
Appending(q) == q.pc \in {"call", "consume", "fallback"}

\* C29: operations on one stream id are serialized with a single writer:
\* in every interleaving, two requests with one client-supplied stream_id
\* included, the cached list of a stream id is a prefix of the increments
\* of a single generation on that id, and no relay discards the entry
\* while another relay is still appending to it
C29_SingleWriter ==
    [][/\ \A sid \in DOMAIN STREAMING_CACHE' :
             \E r \in Requests : /\ req'[r].stream_id = sid
                                  /\ IsPrefix(STREAMING_CACHE'[sid], req'[r].increments)
       /\ \A sid \in DOMAIN STREAMING_CACHE \ DOMAIN STREAMING_CACHE' :
             ~\E r \in Requests : req'[r].stream_id = sid /\ Appending(req'[r])]_vars

\* C30: different stream ids are independent: a step of the relay of a
\* request leaves the entry of every stream id other than its own as it
\* is, and the entry of a stream id that one relay only has run on (the
\* requests in flight being all the requests there were) is, while that
\* relay runs, the list of the increments it extracted so far
C30_StreamsIndependent ==
    [][\A r \in Requests :
          /\ req'[r] # req[r]
              => \A sid \in (DOMAIN STREAMING_CACHE \cup DOMAIN STREAMING_CACHE')
                               \ {req'[r].stream_id} :
                     /\ sid \in DOMAIN STREAMING_CACHE
                     /\ sid \in DOMAIN STREAMING_CACHE'
                     /\ STREAMING_CACHE'[sid] = STREAMING_CACHE[sid]
          /\ (/\ Running(req'[r])
              /\ Cardinality({r2 \in Requests : Accepted(req'[r2])}) = uuids'
              /\ \A r2 \in Requests \ {r} : req'[r2].stream_id # req'[r].stream_id)
              => /\ req'[r].stream_id \in DOMAIN STREAMING_CACHE'
                 /\ STREAMING_CACHE'[req'[r].stream_id] = req'[r].increments]_vars

\* two relays run at once on the stream ids s1 and s2, and each has
\* appended to its entry
C30_Witness ==
    /\ Appending(req[1]) /\ Appending(req[2])
    /\ req[1].stream_id # req[2].stream_id
    /\ \A r \in Requests : /\ req[r].stream_id \in DOMAIN STREAMING_CACHE
                            /\ STREAMING_CACHE[req[r].stream_id] # << >>

\* C31: a resume request (stream_id and resume_from_chunk = k > 0) whose k
\* is at or beyond the number of increments cached for its stream_id, a
\* stream without entry included, is dead-ended: no content frame is
\* delivered for it
C31_ResumeBeyondCacheDeadEnds ==
    \A r \in Requests :
        LET q == req[r]
            k == q.chat_request.resume_from_chunk
        IN (/\ Accepted(q) /\ q.pc # "started"
            /\ q.chat_request.stream_id # None
            /\ k > 0 /\ k >= Len(q.seen))
           => \A j \in 1..Len(q.frames) : q.frames[j].type # "content"

\* C32: the messages passed to every upstream completion call of a request,
\* first attempt and fallback retry, are the (role, content) pairs of the
\* messages of its thread and branch in ascending creation order, the
\* request's own user message included
C32_PromptIsHistory ==
    [][\A r \in Requests :
          LET q == req'[r] IN
          (Accepted(q) /\ Len(q.calls) = Len(req[r].calls) + 1)
          => LET sent == q.calls[Len(q.calls)].messages
                 stored == {m \in messages' :
                               /\ m.thread_id = q.thread
                               /\ m.branch_id = AskedBranch(q.chat_request.branch_id)}
             IN /\ Len(sent) = Cardinality(stored)
                /\ \E m \in stored : m.id = q.user_message
                /\ \A j \in 1..Len(sent) :
                      \E m \in stored :
                         /\ sent[j] = [role |-> m.role, content |-> m.content]
                         /\ Cardinality({n \in stored : n.created_at < m.created_at})
                               = j - 1]_vars

\* the (role, content) pairs sent are the stored messages of the thread and
\* branch of request q among msgs, in ascending creation order
SentIsStored(sent, q, msgs) ==
    LET stored == {m \in msgs : /\ m.thread_id = q.thread
                                /\ m.branch_id = AskedBranch(q.chat_request.branch_id)}
    IN /\ Len(sent) = Cardinality(stored)
       /\ \E m \in stored : m.id = q.user_message
       /\ \A j \in 1..Len(sent) :
             \E m \in stored :
                /\ sent[j] = [role |-> m.role, content |-> m.content]
                /\ Cardinality({n \in stored : n.created_at < m.created_at}) = j - 1

\* C32 as amended: the messages passed to every upstream completion call of
\* a request, first attempt and fallback retry, are the history the
\* request loaded when it was accepted, right after it stored its own user
\* message: the (role, content) pairs of the messages of its thread and
\* branch stored then, in ascending creation order.  Messages that other
\* requests store in the thread afterwards are not in it.
C32_PromptIsLoadedHistory ==
    [][\A r \in Requests :
          LET q == req'[r] IN
          /\ (Accepted(q) /\ q.user_message # req[r].user_message)
                => SentIsStored(q.conversation_history, q, messages')
          /\ (Accepted(q) /\ q.user_message = req[r].user_message)
                => q.conversation_history = req[r].conversation_history
          /\ (Accepted(q) /\ Len(q.calls) = Len(req[r].calls) + 1)
                => q.calls[Len(q.calls)].messages = q.conversation_history]_vars

\* the first attempt and the fallback retry of a request were sent the
\* same messages, while another request on the same thread and branch,
\* accepted later, was sent more
C32_Witness ==
    \E r, r2 \in Requests :
        /\ req[r].thread = req[r2].thread
        /\ req[r].chat_request.branch_id = req[r2].chat_request.branch_id
        /\ req[r].user_message < req[r2].user_message
        /\ Len(req[r].calls) = 2 /\ Len(req[r2].calls) >= 1
        /\ req[r].calls[2].messages = req[r].calls[1].messages
        /\ Len(req[r].calls[2].messages) < Len(req[r2].calls[1].messages)

\* C33: in every reachable state, after any sequence of chat requests and
\* branch creations, every message whose parent_message_id is set refers
\* to an existing message of the same thread
C33_ParentInSameThread ==
    \A m \in messages :
        m.parent_message_id # 0
        => \E p \in messages : p.id = m.parent_message_id /\ p.thread_id = m.thread_id

\* a branch was created from a thread with a reply, and holds the copy of
\* the reply with its parent link
C33_Witness ==
    \E m \in messages :
        /\ m.role = "assistant" /\ m.branch_id # None /\ m.parent_message_id # 0
        /\ \E p \in messages : /\ p.id = m.parent_message_id
                                /\ p.thread_id = m.thread_id /\ p.branch_id = None

\* the text has an occurrence of the text secret
Occurs(secret, text) ==
    \E j \in 0..(Len(text) - Len(secret)) : SubSeq(text, j + 1, j + Len(secret)) = secret

\* the secrets of a stored key: the encrypted column and the decrypted key
Secrets(k) == {k.encrypted_key, <<DecryptApiKey(k.encrypted_key)>>}

\* C34: no response of any endpoint contains the stored encrypted secret or
\* the decrypted API key of any key; for POST /chat: no content, done or
\* error frame and no JSON answer carries one
C34_NoSecretInResponses ==
    \A r \in Requests : \A k \in api_keys : \A secret \in Secrets(k) :
        /\ \A j \in 1..Len(req[r].frames) :
              /\ ~Occurs(secret, req[r].frames[j].content)
              /\ ~Occurs(secret, req[r].frames[j].error.detail)
        /\ ~Occurs(secret, req[r].body.content)

\* C35: a done frame is emitted only after the assistant message of the
\* request was persisted and updated_at of the thread bumped: whenever a
\* response contains a done frame, the thread holds an assistant message
\* created by that request, and updated_at of the thread is its time
C35_DoneAfterPersist ==
    \A r \in Requests :
        LET q == req[r] IN
        (\E j \in 1..Len(q.frames) : q.frames[j].type = "done")
        => \E m \in messages :
              /\ m.role = "assistant" /\ m.thread_id = q.thread
              /\ m.parent_message_id = q.user_message
              /\ \E t \in threads : t.id = q.thread /\ t.updated_at >= m.created_at

\* C36: a request that is served entirely by replaying cached increments
\* leaves the conversation store unchanged: it creates no thread and
\* appends no message
C36_ReplayLeavesStore ==
    \A r \in Requests :
        LET q == req[r] IN
        q.pc \in {"replay", "replayed"}
        => /\ \A m \in messages : m.id # q.user_message
           /\ q.chat_request.thread_id = 0 => \A t \in threads : t.id # q.thread

\* C37: cached increments of a generation started by one user are never
\* delivered to a different user: a request is served from the cache entry
\* of a stream_id only if the increments in that entry were produced by a
\* request of the same user (the requests in flight being all the requests
\* there were)
C37_CacheOfOwnUser ==
    \A r \in Requests :
        LET q == req[r] IN
        (/\ q.pc \in {"replay", "replayed"} /\ q.cached_chunks # << >>
         /\ Cardinality({r2 \in Requests : Accepted(req[r2])}) = uuids)
        => \A r2 \in Requests \ {r} :
              (req[r2].stream_id = q.stream_id /\ req[r2].increments # << >>)
              => req[r2].current_user = q.current_user

\* C38: every assistant message the relay persists has the thread and the
\* branch_id of the user message persisted by the same request, and its
\* parent_message_id is the id of that user message, under any
\* interleaving of concurrent requests on the same thread
C38_ReplyBelongsToRequest ==
    [][\A m \in messages' \ messages :
          m.role = "assistant"
          => \E r \in Requests :
                /\ req'[r].assistant_message = m.id
                /\ req[r].assistant_message # m.id
                /\ \E um \in messages :
                      /\ um.id = req[r].user_message /\ um.role = "user"
                      /\ um.content = req[r].chat_request.message
                      /\ m.thread_id = um.thread_id
                      /\ m.branch_id = um.branch_id
                      /\ m.parent_message_id = um.id]_vars

\* the reply of one request was stored after the user message of the other
\* request on the same thread, which is still served
C38_Witness ==
    \E r, r2 \in Requests :
        /\ r # r2 /\ req[r].thread = req[r2].thread
        /\ req[r].assistant_message # 0 /\ Running(req[r2])
        /\ req[r].user_message < req[r2].user_message
        /\ req[r2].user_message < req[r].assistant_message

\* C39: when a chat request specifies a branch_id, the persisted user
\* message carries that branch_id and its parent_message_id is the latest
\* message (by created_at) already in that branch of the thread, or is
\* unset when the branch has no message; when no branch_id is given, the
\* user message has neither a branch_id nor a parent
C39_UserMessageLinkage ==
    [][\A r \in Requests :
          (Accepted(req'[r]) /\ req'[r].user_message # req[r].user_message)
          => \E m \in messages' \ messages :
                LET cr == req'[r].chat_request
                    branch == {n \in messages : /\ n.thread_id = m.thread_id
                                                /\ n.branch_id = cr.branch_id}
                IN /\ m.id = req'[r].user_message
                   /\ m.role = "user"
                   /\ m.thread_id = req'[r].thread
                   /\ m.branch_id = cr.branch_id
                   /\ cr.branch_id = None => m.parent_message_id = 0
                   /\ (cr.branch_id # None /\ branch = {}) => m.parent_message_id = 0
                   /\ (cr.branch_id # None /\ branch # {})
                         => \E n \in branch :
                               /\ m.parent_message_id = n.id
                               /\ \A k \in branch : k.created_at <= n.created_at]_vars

\* a user message was stored on a branch that held more than one message,
\* with the latest of them as its parent
C39_Witness ==
    \E m, n, k \in messages :
        /\ m.role = "user" /\ m.branch_id # None
        /\ m.parent_message_id = n.id
        /\ n.branch_id = m.branch_id /\ k.branch_id = m.branch_id
        /\ n.thread_id = m.thread_id /\ k.thread_id = m.thread_id
        /\ k.created_at < n.created_at

====
